---------------------------- MODULE Spec2Model ----------------------------
(***************************************************************************)
(* Mesa Facil: the call synchronisation and escalation engine of the       *)
(* useMockData hook.                                                       *)
(*                                                                         *)
(* RemoteStore (the Supabase tables establishments, calls and              *)
(* customer_favorites) is shared by every device.  One hook instance, the  *)
(* Session, is modelled with its React state (currentUser, establishments, *)
(* isUpdating), the closures its asynchronous functions captured at the    *)
(* render that created them, and every promise it has in flight.  The      *)
(* other devices run the same hook; only their RemoteStore requests are    *)
(* part of the state (a device's establishments map is private to it).     *)
(*                                                                         *)
(* Every step is one macrotask of the JavaScript event loop: a UI call or  *)
(* timer callback up to its first await, or the execution of one request   *)
(* by RemoteStore together with the continuation that runs when the        *)
(* promise settles.                                                        *)
(***************************************************************************)
EXTENDS Integers, Sequences, FiniteSets, Bags, TLC

\* ----------------------------------------------------------------- bounds
MaxCalls == 2       \* rows the calls table may hold
MaxTime == 1        \* values Date.now() takes: 0..MaxTime
MaxLoads == 1       \* refreshes the Session may have in flight outside polling cycles
MaxCycles == 2      \* polling cycles the Session may have in flight
MaxFavs == 4        \* establishments a user may try to favourite
MaxTableCalls == 2  \* calls of the table the dashboard renders
MaxSeconds == 2     \* seconds the dashboard's clock runs

\* ------------------------------------------------------------ value sets
Session == 1
OtherDevices == {2, 3}
Clients == {Session} \cup OtherDevices

Staff == 2
Guest == 3

OwnEst == 1
Est == {OwnEst, 2}

Owner == "owner"
Customer == "customer"

CallTypes == {"WAITER", "BILL"}

SENT == "SENT"
VIEWED == "VIEWED"
ATTENDED == "ATTENDED"
CANCELED == "CANCELED"
ActiveStatuses == {SENT, VIEWED}
TerminalStatuses == {ATTENDED, CANCELED}

\* DEFAULT_SETTINGS of ../constants: only totalTables is read by the refresh
DefaultTotalTables == 2
NullSettings == [totalTables |-> -1]
DEFAULT_SETTINGS == [totalTables |-> DefaultTotalTables]
SettingsValues == {[totalTables |-> n] : n \in {0}}

VARIABLES
    \* RemoteStore
    calls,            \* the calls table: a sequence of rows, a row's id is its index
    estRows,          \* the establishments table: Est -> row
    favorites,        \* customer_favorites: the (user_id, establishment_id) pairs
    now,              \* Date.now()
    \* the Session's React state
    currentUser,
    establishments,   \* the cache: a map from establishment id to its aggregate
    isUpdating,
    \* the Session's polling effect and promises in flight
    effect,           \* the installed polling effect (its closure), or NoEffect
    cycles,           \* bag of polling cycles in flight
    loads,            \* bag of loadEstablishmentData calls in flight outside cycles
    ops,              \* Clients -> the lifecycle operation the device is running
    favOps,           \* Clients -> the favourite operation the device is running
    profile,          \* the fetchUserProfile call in flight
    dashboard         \* what the dashboard rendered last: a table, its settings, its semaphore

remoteVars == <<calls, estRows, favorites, now>>
sessionVars == <<currentUser, establishments, isUpdating, effect, cycles, loads, profile>>
vars == <<calls, estRows, favorites, now, currentUser, establishments, isUpdating,
          effect, cycles, loads, ops, favOps, dashboard, profile>>


\* ------------------------------------------------------------ RemoteStore
CallIds == 1..Len(calls)

IsActive(id) == calls[id].status \in ActiveStatuses

\* .eq('establishment_id', e).eq('table_number', t).eq('type', ty).in('status', ['SENT','VIEWED'])
ActiveOfType(e, t, ty) ==
    {id \in CallIds : calls[id].est = e /\ calls[id].table = t
                       /\ calls[id].type = ty /\ IsActive(id)}

\* a select that forgets the order by created_at_ts: any active call of the type
AnyActive(e, t, ty) == ActiveOfType(e, t, ty)

\* .order('created_at_ts', {ascending: true}).limit(1): the rows RemoteStore may
\* return first (rows of equal created_at_ts come in no promised order)
OldestActive(e, t, ty) ==
    {id \in ActiveOfType(e, t, ty) :
        \A j \in ActiveOfType(e, t, ty) : calls[id].createdAt <= calls[j].createdAt}

\* .eq('establishment_id', e).eq('table_number', t).eq('status', 'SENT')
SentOnTable(e, t) ==
    {id \in CallIds : calls[id].est = e /\ calls[id].table = t /\ calls[id].status = SENT}

\* the filter without .eq('table_number', t)
ActiveOnAnyTable(e, t) == {id \in CallIds : calls[id].est = e /\ IsActive(id)}

\* .eq('establishment_id', e).eq('table_number', t).in('status', ['SENT','VIEWED'])
ActiveOnTable(e, t) ==
    {id \in CallIds : calls[id].est = e /\ calls[id].table = t /\ IsActive(id)}

\* the filter without .eq('establishment_id', e)
ActiveAnywhere(e) == {id \in CallIds : IsActive(id)}

\* .eq('establishment_id', e).in('status', ['SENT','VIEWED'])
ActiveOfEst(e) == {id \in CallIds : calls[id].est = e /\ IsActive(id)}

\* update({status: s}) on the rows ids
SetStatus(ids, s) ==
    [id \in CallIds |-> IF id \in ids THEN [calls[id] EXCEPT !.status = s] ELSE calls[id]]

\* ------------------------------------------------------------ bags
BagAdd(B, x) == B (+) SetToBag({x})
BagRemove(B, x) == B (-) SetToBag({x})
BagReplace(B, x, y) == BagAdd(BagRemove(B, x), y)


\* ------------------------------------------------------------ users
\* A User as the hook holds it.  ref > 0 marks the object fetchUserProfile built
\* for sign-in number ref: it is mutated in place (user.establishmentId = est.id)
\* after it was handed to setCurrentUser, so every closure that captured it sees
\* the new field.  ref = 0 is an immutable copy ({...prev, establishmentId}).
NoUser == [id |-> "none", role |-> "none", establishmentId |-> 0, ref |-> 0]
ESTABLISHMENT == "ESTABLISHMENT"
CUSTOMER == "CUSTOMER"

\* the profiles row and the establishments.owner_id link of each account
RoleOf(uid) == IF uid = Owner THEN ESTABLISHMENT ELSE CUSTOMER
OwnedBy(uid) == IF uid = Owner THEN OwnEst ELSE 0

\* currentUser?.role === Role.ESTABLISHMENT && currentUser.establishmentId === estId
IsOwnerOf(u, e) == u.role = ESTABLISHMENT /\ u.establishmentId = e

\* the dependency list with currentUser?.id alone
DepsIdOnly(u) == <<u.id>>

\* the dependency list of the polling effect
Deps(u) == <<u.id, u.establishmentId>>

\* ------------------------------------------------------------ aggregates
IdSeq == [i \in CallIds |-> i]

Snapshot(id) ==
    [id |-> id, type |-> calls[id].type, status |-> calls[id].status,
     createdAt |-> calls[id].createdAt]

SnapshotSeq(s) == [i \in 1..Len(s) |-> Snapshot(s[i])]

\* the calls.forEach loop: the rows ids of table t, in the order returned
CallsOfTable(ids, t) ==
    SnapshotSeq(SelectSeq(IdSeq, LAMBDA id : id \in ids /\ calls[id].table = t))

\* est.settings?.totalTables || DEFAULT_SETTINGS.totalTables
SlotCount(settings) ==
    IF settings = NullSettings \/ settings.totalTables = 0
    THEN DEFAULT_SETTINGS.totalTables
    ELSE settings.totalTables

\* tablesMap: one entry per table that has a row in ids, then one per slot 1..total
TablesMap(ids, total) ==
    [t \in {calls[id].table : id \in ids} \cup {ToString(i) : i \in 1..total} |->
        CallsOfTable(ids, t)]

\* fullEst built from the establishments row and the rows ids of the calls query
FullEst(row, ids) ==
    [isOpen |-> row.is_open,
     settings |-> IF row.settings = NullSettings THEN DEFAULT_SETTINGS ELSE row.settings,
     tables |-> TablesMap(ids, SlotCount(row.settings))]

\* fallbackEst: tables is new Map()
FallbackEst ==
    [isOpen |-> TRUE,
     settings |-> DEFAULT_SETTINGS,
     tables |-> [t \in {} |-> <<>>]]

\* new Map(prev).set(e, a)
Put(m, e, a) == [x \in DOMAIN m \cup {e} |-> IF x = e THEN a ELSE m[x]]
EmptyMap == [x \in {} |-> FallbackEst]

\* ------------------------------------------------------------ loadEstablishmentData
\* One call of loadEstablishmentData(est).  has and user are what the closure of
\* the render that created the function holds: establishments.has(est) and
\* currentUser.  pc is the request it awaits, row the establishments row read.
NoRow == [is_open |-> FALSE, settings |-> NullSettings]
NewLoad(e, hasIt, u) == [est |-> e, has |-> hasIt, user |-> u, pc |-> "est", row |-> NoRow]
NoLoad == [est |-> 0, has |-> FALSE, user |-> NoUser, pc |-> "done", row |-> NoRow]

\* the establishments select answered with a row
LoadGotRow(l) == [l EXCEPT !.pc = "calls", !.row = estRows[l.est]]

\* the fallback branch without the test of the caller's role and establishment
PlaceholderCache(l) ==
    IF l.has THEN establishments ELSE Put(establishments, l.est, FallbackEst)

\* if (estError || !est): keep what the closure's map has, else the owner's placeholder
FallbackCache(l) ==
    IF l.has THEN establishments
    ELSE IF IsOwnerOf(l.user, l.est) THEN Put(establishments, l.est, FallbackEst)
    ELSE establishments

\* what the fallback branch returns: the aggregate of the closure's map, the
\* placeholder, or null
FallbackResult(l) ==
    IF l.has THEN "cached"
    ELSE IF IsOwnerOf(l.user, l.est) THEN "placeholder"
    ELSE "null"

\* a refresh that merges: the tables of the entry it replaces are kept unless
\* the new aggregate has calls for them
MergedCache(l, ids) ==
    LET new == FullEst(l.row, ids)
        old == IF l.est \in DOMAIN establishments
               THEN establishments[l.est].tables ELSE new.tables
    IN  Put(establishments, l.est,
            [new EXCEPT !.tables =
                [t \in DOMAIN new.tables |->
                    IF new.tables[t] = <<>> /\ t \in DOMAIN old THEN old[t]
                    ELSE new.tables[t]]])

\* the calls select answered; data is the rows ids (none when the query failed)
AppliedCache(l, ids) == Put(establishments, l.est, FullEst(l.row, ids))


\* ------------------------------------------------------------ refreshes in flight
\* loadEstablishmentData called outside a polling cycle (after a write, by
\* fetchUserProfile, by a change notification)
LoadEstOk(l) ==
    /\ l \in BagToSet(loads) /\ l.pc = "est"
    /\ l.est \in DOMAIN estRows
    /\ loads' = BagReplace(loads, l, LoadGotRow(l))
    /\ UNCHANGED <<remoteVars, currentUser, establishments, isUpdating, effect, cycles,
                   ops, favOps, dashboard, profile>>

\* the select returned an error or no row
LoadEstFail(l) ==
    /\ l \in BagToSet(loads) /\ l.pc = "est"
    /\ loads' = BagRemove(loads, l)
    /\ establishments' = FallbackCache(l)
    /\ UNCHANGED <<remoteVars, currentUser, isUpdating, effect, cycles,
                   ops, favOps, dashboard, profile>>

\* withTimeout rejected first: catch (e) { return null }
LoadEstTimeout(l) ==
    /\ l \in BagToSet(loads) /\ l.pc = "est"
    /\ loads' = BagRemove(loads, l)
    /\ UNCHANGED <<remoteVars, currentUser, establishments, isUpdating, effect, cycles,
                   ops, favOps, dashboard, profile>>

\* the calls select answered: ok with the active rows, or an error (data is null)
LoadCalls(l, ok) ==
    /\ l \in BagToSet(loads) /\ l.pc = "calls"
    /\ loads' = BagRemove(loads, l)
    /\ establishments' = AppliedCache(l, IF ok THEN ActiveOfEst(l.est) ELSE {})
    /\ UNCHANGED <<remoteVars, currentUser, isUpdating, effect, cycles,
                   ops, favOps, dashboard, profile>>

\* ------------------------------------------------------------ change notifications
\* loadEstablishmentData of part_002: .select('*').eq('establishment_id', e),
\* every call of the establishment whatever its status
CallsOfEst(e) == {id \in CallIds : calls[id].est = e}

\* fullEst of part_002: settings and tables (no isOpen field)
FullEst_002(row, ids) ==
    [settings |-> IF row.settings = NullSettings THEN DEFAULT_SETTINGS ELSE row.settings,
     tables |-> TablesMap(ids, SlotCount(row.settings))]

\* the establishments select of part_002 answered: if (!est) return
LoadEst_002(l, ok) ==
    /\ l \in BagToSet(loads) /\ l.pc = "est_002"
    /\ loads' = IF ok /\ l.est \in DOMAIN estRows
                THEN BagReplace(loads, l, [l EXCEPT !.pc = "calls_002", !.row = estRows[l.est]])
                ELSE BagRemove(loads, l)
    /\ UNCHANGED <<remoteVars, currentUser, establishments, isUpdating, effect, cycles,
                   ops, favOps, dashboard, profile>>

\* the calls select of part_002 answered (data is null when it failed), then
\* setEstablishments(prev => new Map(prev).set(estId, fullEst))
LoadCalls_002(l, ok) ==
    /\ l \in BagToSet(loads) /\ l.pc = "calls_002"
    /\ loads' = BagRemove(loads, l)
    /\ establishments' =
            Put(establishments, l.est, FullEst_002(l.row, IF ok THEN CallsOfEst(l.est) ELSE {}))
    /\ UNCHANGED <<remoteVars, currentUser, isUpdating, effect, cycles,
                   ops, favOps, dashboard, profile>>

\* the payloads of postgres_changes on the calls table: the event and the row
ChangeEvents == {"INSERT", "UPDATE", "DELETE"}
Payloads ==
    {[eventType |-> ev, table |-> t, type |-> ty, status |-> st] :
        ev \in ChangeEvents, t \in {"1"}, ty \in {"WAITER"}, st \in {SENT, ATTENDED}}

\* a handler that updates the state locally from the payload (the optimization
\* the code's comment names)
PayloadCache(e, payload) ==
    IF e \in DOMAIN establishments /\ payload.table \in DOMAIN establishments[e].tables
    THEN [establishments EXCEPT ![e].tables[payload.table] =
            IF payload.eventType = "DELETE" THEN <<>>
            ELSE Append(@, [id |-> 0, type |-> payload.type, status |-> payload.status,
                            createdAt |-> now])]
    ELSE establishments

\* the cache after the handler (payload) => { loadEstablishmentData(estId); } ran
NotifiedCache(e, payload) == establishments

\* subscribeToEstablishmentCalls(e) is in force and RemoteStore pushes a change
\* of a call of establishment e: the handler calls loadEstablishmentData(e)
CallsChanged_002(e, payload) ==
    /\ currentUser # NoUser
    /\ BagCardinality(loads) < MaxLoads
    /\ loads' = BagAdd(loads, [NewLoad(e, e \in DOMAIN establishments, currentUser)
                                  EXCEPT !.pc = "est_002"])
    /\ establishments' = NotifiedCache(e, payload)
    /\ UNCHANGED <<remoteVars, currentUser, isUpdating, effect, cycles,
                   ops, favOps, dashboard, profile>>

\* ------------------------------------------------------------ lifecycle operations
\* A handler of the hook in flight on a device.  est, table, type, settings and
\* createdAt (Date.now()) are its arguments; has and user are the closure of the
\* render whose function runs (establishments.has(est), currentUser); pc is the
\* request it awaits and sel the ids its select returned.
NoOp ==
    [kind |-> "idle", est |-> 0, table |-> "", type |-> "", pc |-> "", sel |-> {},
     has |-> FALSE, user |-> NoUser, createdAt |-> 0, settings |-> NullSettings]

FirstPc(kind) ==
    CASE kind \in {"addCall", "addCall_002"} -> "insert"
      [] kind \in {"attend", "cancel", "view"} -> "select"
      [] kind = "closeWorkday" -> "updateEst"
      [] OTHER -> "update"

\* the handler as called on device k at time at; on the Session the closure is
\* the current render's
NewOp(k, kind, e, t, ty, s, at) ==
    [kind |-> kind, est |-> e, table |-> t, type |-> ty, pc |-> FirstPc(kind),
     sel |-> {},
     has |-> (k = Session /\ e \in DOMAIN establishments),
     user |-> IF k = Session THEN currentUser ELSE NoUser,
     createdAt |-> at, settings |-> s]

\* The Session's UI calls a handler: it runs up to its first await.
StartOp(kind, e, t, ty, s) ==
    /\ currentUser # NoUser
    /\ ops[Session].kind = "idle"
    /\ kind \in {"addCall", "addCall_002"} => Len(calls) < MaxCalls
    /\ BagCardinality(loads) < MaxLoads
    /\ ops' = [ops EXCEPT ![Session] = NewOp(Session, kind, e, t, ty, s, now)]
    /\ UNCHANGED <<remoteVars, sessionVars, favOps, dashboard>>

\* the trailing loadEstablishmentData(estId) of a handler, not awaited; another
\* device's refresh writes that device's own map
Refresh(k, o) ==
    IF k = Session
    THEN loads' = BagAdd(loads, NewLoad(o.est, o.has, o.user))
    ELSE UNCHANGED loads

EndOp(k) == ops' = [ops EXCEPT ![k] = NoOp]

\* a handler that writes the cache optimistically: the calls of the table it
\* acted on are dropped from the cached aggregate
OptimisticCache(k, o) ==
    IF k = Session /\ o.est \in DOMAIN establishments
                   /\ o.table \in DOMAIN establishments[o.est].tables
    THEN [establishments EXCEPT ![o.est].tables[o.table] = <<>>]
    ELSE establishments

\* the cache after a handler's write: no handler calls setEstablishments, the
\* map changes when the refresh the handler started is answered
HandlerCache(k, o) == establishments

opFrame == <<estRows, favorites, now, currentUser, isUpdating, effect,
             cycles, favOps, dashboard, profile>>

\* {establishment_id, table_number, type, status: SENT, created_at_ts: Date.now()}
NewCall(o) ==
    [est |-> o.est, table |-> o.table, type |-> o.type, status |-> SENT,
     createdAt |-> o.createdAt]

\* an insert that is dropped when the table has an active call of the type
InsertedUnlessActive(o) ==
    IF \E id \in CallIds :
          /\ calls[id].est = o.est /\ calls[id].table = o.table
          /\ calls[id].type = o.type /\ IsActive(id)
    THEN calls
    ELSE Append(calls, NewCall(o))

\* from('calls').insert(row): the table after the insert
Inserted(o) == Append(calls, NewCall(o))

\* addCall: the insert is executed (or fails), then the refresh
AddCallInsert(k, o, ok) ==
    /\ o.kind = "addCall" /\ o.pc = "insert"
    /\ calls' = IF ok THEN Inserted(o) ELSE calls
    /\ Refresh(k, o) /\ EndOp(k)
    /\ establishments' = HandlerCache(k, o)
    /\ UNCHANGED opFrame

\* attendOldestCallByType / cancelOldestCallByType: the select of the oldest
\* active call; data[0] missing (no row, or the query failed) ends the handler
OldestSelect(k, o, ok) ==
    /\ o.kind \in {"attend", "cancel"} /\ o.pc = "select"
    /\ LET found == IF ok THEN OldestActive(o.est, o.table, o.type) ELSE {}
       IN  IF found = {}
           THEN EndOp(k)
           ELSE \E id \in found :
                    ops' = [ops EXCEPT ![k] = [o EXCEPT !.sel = {id}, !.pc = "update"]]
    /\ UNCHANGED <<remoteVars, sessionVars, favOps, dashboard>>

TargetStatus(kind) ==
    CASE kind = "attend" -> ATTENDED
      [] kind = "cancel" -> CANCELED
      [] kind \in {"view", "view_002"} -> VIEWED
      [] kind = "closeTable" -> ATTENDED
      [] OTHER -> CANCELED

\* update({status}).eq('id', data[0].id) / .in('id', ids), then the refresh
UpdateById(k, o, ok) ==
    /\ o.kind \in {"attend", "cancel", "view", "view_002"} /\ o.pc = "update"
    /\ calls' = IF ok THEN SetStatus(o.sel, TargetStatus(o.kind)) ELSE calls
    /\ Refresh(k, o) /\ EndOp(k)
    /\ establishments' = HandlerCache(k, o)
    /\ UNCHANGED opFrame

\* viewAllCallsForTable: the select of the SENT calls of the table
ViewSelect(k, o, ok) ==
    /\ o.kind = "view" /\ o.pc = "select"
    /\ LET found == IF ok THEN SentOnTable(o.est, o.table) ELSE {}
       IN  IF found = {}
           THEN EndOp(k)
           ELSE ops' = [ops EXCEPT ![k] = [o EXCEPT !.sel = found, !.pc = "update"]]
    /\ UNCHANGED <<remoteVars, sessionVars, favOps, dashboard>>

\* closeTable: one filtered update, then the refresh
CloseTableUpdate(k, o, ok) ==
    /\ o.kind = "closeTable" /\ o.pc = "update"
    /\ calls' = IF ok THEN SetStatus(ActiveOnTable(o.est, o.table), ATTENDED) ELSE calls
    /\ Refresh(k, o) /\ EndOp(k)
    /\ establishments' = HandlerCache(k, o)
    /\ UNCHANGED opFrame

\* closeEstablishmentWorkday: update({is_open: false}).eq('id', id)
CloseWorkdayEst(k, o, ok) ==
    /\ o.kind = "closeWorkday" /\ o.pc = "updateEst"
    /\ estRows' = IF ok /\ o.est \in DOMAIN estRows
                  THEN [estRows EXCEPT ![o.est].is_open = FALSE]
                  ELSE estRows
    /\ ops' = [ops EXCEPT ![k] = [o EXCEPT !.pc = "updateCalls"]]
    /\ UNCHANGED <<calls, favorites, now, sessionVars, favOps, dashboard>>

\* closeEstablishmentWorkday: the bulk cancel, then the refresh
CloseWorkdayCalls(k, o, ok) ==
    /\ o.kind = "closeWorkday" /\ o.pc = "updateCalls"
    /\ calls' = IF ok THEN SetStatus(ActiveOfEst(o.est), CANCELED) ELSE calls
    /\ Refresh(k, o) /\ EndOp(k)
    /\ establishments' = HandlerCache(k, o)
    /\ UNCHANGED opFrame

\* updateSettings: update({settings: s}).eq('id', id), then the refresh
UpdateSettingsWrite(k, o, ok) ==
    /\ o.kind = "updateSettings" /\ o.pc = "update"
    /\ estRows' = IF ok /\ o.est \in DOMAIN estRows
                  THEN [estRows EXCEPT ![o.est].settings = o.settings]
                  ELSE estRows
    /\ Refresh(k, o) /\ EndOp(k)
    /\ establishments' = HandlerCache(k, o)
    /\ UNCHANGED <<calls, favorites, now, currentUser, isUpdating, effect,
                   cycles, favOps, dashboard, profile>>

\* addCall of part_002: if (error) console.error(...) else loadEstablishmentData(...)
AddCallInsert_002(k, o, ok) ==
    /\ o.kind = "addCall_002" /\ o.pc = "insert"
    /\ calls' = IF ok THEN Inserted(o) ELSE calls
    /\ IF ok THEN Refresh(k, o) ELSE UNCHANGED loads
    /\ EndOp(k)
    /\ establishments' = HandlerCache(k, o)
    /\ UNCHANGED opFrame

\* table.calls.filter(c => c.status === CallStatus.SENT).map(c => c.id) on the
\* cached aggregate: no entry or no table gives no ids
SentInCache(e, t) ==
    IF e \in DOMAIN establishments /\ t \in DOMAIN establishments[e].tables
    THEN {establishments[e].tables[t][i].id :
            i \in {j \in 1..Len(establishments[e].tables[t]) :
                        establishments[e].tables[t][j].status = SENT}}
    ELSE {}

\* viewAllCallsForTable of part_002 (updateCallsByPredicate): the ids are taken
\* from the Session's cache before any request; with none the handler returns,
\* else it awaits update({status: VIEWED}).in('id', ids)
viewAllCallsForTable_002(e, t) ==
    /\ currentUser # NoUser
    /\ ops[Session].kind = "idle"
    /\ BagCardinality(loads) < MaxLoads
    /\ SentInCache(e, t) # {}
    /\ ops' = [ops EXCEPT ![Session] =
                  [NewOp(Session, "view_002", e, t, "", NullSettings, now) EXCEPT
                      !.sel = SentInCache(e, t), !.pc = "update"]]
    /\ UNCHANGED <<remoteVars, sessionVars, favOps, dashboard>>

\* the request a handler in flight on device k awaits is executed by RemoteStore
OpStep(k, o, ok) ==
    \/ AddCallInsert(k, o, ok)
    \/ AddCallInsert_002(k, o, ok)
    \/ OldestSelect(k, o, ok)
    \/ UpdateById(k, o, ok)
    \/ ViewSelect(k, o, ok)
    \/ CloseTableUpdate(k, o, ok)
    \/ CloseWorkdayEst(k, o, ok)
    \/ CloseWorkdayCalls(k, o, ok)
    \/ UpdateSettingsWrite(k, o, ok)

\* Another device calls a handler.  Nothing of that device is part of the state
\* until RemoteStore executes the handler's first request, so the call and that
\* request are one step; Date.now() was read when the handler was called.
DeviceCall(k, kind, e, t, ty, ok) ==
    /\ k \in OtherDevices
    /\ ops[k].kind = "idle"
    /\ kind \in {"addCall", "addCall_002"} => Len(calls) < MaxCalls
    /\ \E at \in 0..now : OpStep(k, NewOp(k, kind, e, t, ty, NullSettings, at), ok)

\* Another device calls updateSettings(e, st)
DeviceSettings(k, e, st, ok) ==
    /\ k \in OtherDevices
    /\ ops[k].kind = "idle"
    /\ OpStep(k, NewOp(k, "updateSettings", e, "", "", st, now), ok)

\* a handler in flight continues
DeviceStep(k, ok) ==
    /\ ops[k].kind # "idle"
    /\ OpStep(k, ops[k], ok)

\* Date.now() advances
TimePasses ==
    /\ now < MaxTime
    /\ now' = now + 1
    /\ UNCHANGED <<calls, estRows, favorites, sessionVars, ops, favOps, dashboard>>

\* ------------------------------------------------------------ favourites
\* customer_favorites holds unique (user_id, establishment_id) pairs: an insert
\* of a pair it holds is refused with code 23505
FavEsts == 1..MaxFavs
FavoritesOf(uid) == {p \in favorites : p[1] = uid}
FavLimit == 3

\* favOps[k]: the favourite call in flight on device k (pc = "insert": the count
\* was read and the insert is awaited), or, at pc = "idle", the last call that
\* returned there with what it returned: "ok", or the error thrown ("limit":
\* the limit message, "failed": the error RemoteStore reported for the insert)
Returned(uid, e, variant, op, res) ==
    [pc |-> "idle", uid |-> uid, est |-> e, variant |-> variant, op |-> op, result |-> res]

favFrame == <<calls, estRows, now, sessionVars, ops, dashboard>>

\* profile.length >= 3
OverLimit(n) == n >= FavLimit

\* if (error.code === '23505') return
DuplicateResult == "ok"

\* favoriteEstablishment of the limit-checking variant, up to its insert: the
\* select of the user's favourites answers (ok) or fails (profile is null and
\* the check is skipped)
FavoriteCheck(k, uid, e, ok) ==
    /\ favOps[k].pc = "idle"
    /\ IF ok /\ OverLimit(Cardinality(FavoritesOf(uid)))
       THEN favOps' = [favOps EXCEPT ![k] = Returned(uid, e, "limitCheck", "favorite", "limit")]
       ELSE favOps' = [favOps EXCEPT ![k] =
                [pc |-> "insert", uid |-> uid, est |-> e, variant |-> "limitCheck",
                 op |-> "favorite", result |-> ""]]
    /\ UNCHANGED <<favorites, favFrame>>

\* its insert is executed: it fails (the error is thrown), is refused as a
\* duplicate, or is done
FavoriteInsert(k, ok) ==
    /\ favOps[k].pc = "insert"
    /\ LET uid == favOps[k].uid
           e == favOps[k].est
           res == IF ~ok THEN "failed"
                  ELSE IF <<uid, e>> \in favorites THEN DuplicateResult
                  ELSE "ok"
       IN  /\ favorites' = IF res = "ok" /\ <<uid, e>> \notin favorites
                           THEN favorites \cup {<<uid, e>>}
                           ELSE favorites
           /\ favOps' = [favOps EXCEPT ![k] = Returned(uid, e, "limitCheck", "favorite", res)]
    /\ UNCHANGED favFrame

\* favoriteEstablishment of the hook: the insert, whose result is not read
FavoriteHook(k, uid, e, ok) ==
    /\ favOps[k].pc = "idle"
    /\ favorites' = IF ok THEN favorites \cup {<<uid, e>>} ELSE favorites
    /\ favOps' = [favOps EXCEPT ![k] = Returned(uid, e, "hook", "favorite", "ok")]
    /\ UNCHANGED favFrame

\* unfavoriteEstablishment: delete().eq('user_id', uid).eq('establishment_id', e)
Unfavorite(k, uid, e, ok) ==
    /\ favOps[k].pc = "idle"
    /\ favorites' = IF ok THEN favorites \ {<<uid, e>>} ELSE favorites
    /\ favOps' = [favOps EXCEPT ![k] = Returned(uid, e, "hook", "unfavorite", "ok")]
    /\ UNCHANGED favFrame

\* ------------------------------------------------------------ semaphores
IDLE == "IDLE"
GREEN == "GREEN"
YELLOW == "YELLOW"
RED == "RED"

\* created_at_ts and Date.now() are milliseconds, the thresholds seconds
MsPerSecond == 1000

\* a comparison on the distance between the two instants, whatever its sign
AbsElapsedExceeds(at, createdAt, seconds) ==
    (IF at >= createdAt THEN at - createdAt ELSE createdAt - at) > seconds * MsPerSecond

\* (Date.now() - oldest.createdAt) / 1000 > seconds
ElapsedExceeds(at, createdAt, seconds) == at - createdAt > seconds * MsPerSecond

\* c.status === 'SENT' || c.status === 'VIEWED'
ActiveCall(c) == c.status = SENT \/ c.status = VIEWED

\* a filter that tests CallStatus.ATTENDED alone
NotAttended(c) == c.status # ATTENDED

\* c.status !== CallStatus.ATTENDED && c.status !== CallStatus.CANCELED
NotTerminal(c) == c.status # ATTENDED /\ c.status # CANCELED

\* reduce((a, b) => a.createdAt < b.createdAt ? a : b).createdAt of a non-empty list
OldestCreatedAt(cs) ==
    CHOOSE m \in {cs[i].createdAt : i \in 1..Len(cs)} :
        \A i \in 1..Len(cs) : m <= cs[i].createdAt

\* getTableSemaphoreStatus of the hook without its YELLOW line
TableStatusNoYellow(tcalls, settings, at) ==
    LET active == SelectSeq(tcalls, ActiveCall)
    IN  IF Len(active) = 0 THEN IDLE
        ELSE IF ElapsedExceeds(at, OldestCreatedAt(active), settings.timeYellow) THEN RED
        ELSE GREEN

\* getTableSemaphoreStatus of hooks/useMockData.ts, evaluated at Date.now() = at
getTableSemaphoreStatus(tcalls, settings, at) ==
    LET active == SelectSeq(tcalls, ActiveCall)
    IN  IF Len(active) = 0 THEN IDLE
        ELSE IF ElapsedExceeds(at, OldestCreatedAt(active), settings.timeYellow) THEN RED
        ELSE IF ElapsedExceeds(at, OldestCreatedAt(active), settings.timeGreen) THEN YELLOW
        ELSE GREEN

\* getCallTypeSemaphoreStatus of hooks/useMockData.ts: oldest is active[0]
getCallTypeSemaphoreStatus(tcalls, type, settings, at) ==
    LET active == SelectSeq(tcalls, LAMBDA c : c.type = type /\ ActiveCall(c))
    IN  IF Len(active) = 0 THEN IDLE
        ELSE IF ElapsedExceeds(at, active[1].createdAt, settings.timeYellow) THEN RED
        ELSE GREEN

\* callsByType[type]
CountOfType(cs, type) == Len(SelectSeq(cs, LAMBDA c : c.type = type))

\* Object.values(callsByType): the counts of the types that occur
TypeCounts(cs) == {CountOfType(cs, cs[i].type) : i \in 1..Len(cs)}

\* the status from the four flags
FromFlags(redByTime, yellowByTime, redByQty, yellowByQty) ==
    IF redByTime \/ redByQty THEN RED
    ELSE IF yellowByTime \/ yellowByQty THEN YELLOW
    ELSE GREEN

\* getTableSemaphoreStatus of part_002 with a yellow window that is closed at
\* timeGreen: timeElapsed >= timeGreen && timeElapsed <= timeYellow
TableStatusYellowAtThreshold(tcalls, settings, at) ==
    LET activeCalls == SelectSeq(tcalls, NotTerminal)
        oldest == OldestCreatedAt(activeCalls)
    IN  IF Len(activeCalls) = 0 THEN IDLE
        ELSE FromFlags(ElapsedExceeds(at, oldest, settings.timeYellow),
                       at - oldest >= settings.timeGreen * MsPerSecond
                          /\ ~ElapsedExceeds(at, oldest, settings.timeYellow),
                       \E n \in TypeCounts(activeCalls) : n > settings.qtyYellow,
                       \E n \in TypeCounts(activeCalls) :
                            n > settings.qtyGreen /\ n <= settings.qtyYellow)

\* getTableSemaphoreStatus of part_002 without isRedByTime
TableStatusNoRedByTime(tcalls, settings, at) ==
    LET activeCalls == SelectSeq(tcalls, NotTerminal)
        oldest == OldestCreatedAt(activeCalls)
    IN  IF Len(activeCalls) = 0 THEN IDLE
        ELSE FromFlags(FALSE,
                       ElapsedExceeds(at, oldest, settings.timeGreen)
                          /\ ~ElapsedExceeds(at, oldest, settings.timeYellow),
                       \E n \in TypeCounts(activeCalls) : n > settings.qtyYellow,
                       \E n \in TypeCounts(activeCalls) :
                            n > settings.qtyGreen /\ n <= settings.qtyYellow)

\* getTableSemaphoreStatus of part_002 with the filter that tests ATTENDED alone
TableStatusNotAttended(tcalls, settings, at) ==
    LET activeCalls == SelectSeq(tcalls, NotAttended)
        oldest == OldestCreatedAt(activeCalls)
    IN  IF Len(activeCalls) = 0 THEN IDLE
        ELSE FromFlags(ElapsedExceeds(at, oldest, settings.timeYellow),
                       ElapsedExceeds(at, oldest, settings.timeGreen)
                          /\ ~ElapsedExceeds(at, oldest, settings.timeYellow),
                       \E n \in TypeCounts(activeCalls) : n > settings.qtyYellow,
                       \E n \in TypeCounts(activeCalls) :
                            n > settings.qtyGreen /\ n <= settings.qtyYellow)

\* getTableSemaphoreStatus of part_002
getTableSemaphoreStatus_002(tcalls, settings, at) ==
    LET activeCalls == SelectSeq(tcalls, NotTerminal)
        oldest == OldestCreatedAt(activeCalls)
    IN  IF Len(activeCalls) = 0 THEN IDLE
        ELSE FromFlags(ElapsedExceeds(at, oldest, settings.timeYellow),
                       ElapsedExceeds(at, oldest, settings.timeGreen)
                          /\ ~ElapsedExceeds(at, oldest, settings.timeYellow),
                       \E n \in TypeCounts(activeCalls) : n > settings.qtyYellow,
                       \E n \in TypeCounts(activeCalls) :
                            n > settings.qtyGreen /\ n <= settings.qtyYellow)

\* getCallTypeSemaphoreStatus of part_002
getCallTypeSemaphoreStatus_002(tcalls, type, settings, at) ==
    LET callsOfType == SelectSeq(tcalls, LAMBDA c : c.type = type /\ ActiveCall(c))
        oldest == OldestCreatedAt(callsOfType)
        n == Len(callsOfType)
    IN  IF n = 0 THEN IDLE
        ELSE FromFlags(ElapsedExceeds(at, oldest, settings.timeYellow),
                       ElapsedExceeds(at, oldest, settings.timeGreen)
                          /\ ~ElapsedExceeds(at, oldest, settings.timeYellow),
                       n > settings.qtyYellow,
                       n > settings.qtyGreen /\ n <= settings.qtyYellow)

\* The dashboard renders one table: Table.calls and the establishment's
\* settings as the cache holds them, and the table's semaphore computed from
\* them at Date.now() = at by either variant.
Paint(tcalls, settings, at) ==
    [calls |-> tcalls, settings |-> settings,
     tableStatus |-> getTableSemaphoreStatus(tcalls, settings, at),
     tableStatus_002 |-> getTableSemaphoreStatus_002(tcalls, settings, at)]

\* the thresholds of the settings the dashboard is given
Thresholds ==
    {[timeGreen |-> tg, timeYellow |-> tg + 1, qtyGreen |-> qg, qtyYellow |-> qg + 1] :
        tg \in 0..1, qg \in 0..1}

Instants == {i * MsPerSecond : i \in 0..MaxSeconds}

NoDashboard ==
    Paint(<<>>, [timeGreen |-> 0, timeYellow |-> 1, qtyGreen |-> 0, qtyYellow |-> 1], 0)

semFrame == <<calls, estRows, favorites, sessionVars, ops, favOps>>

\* the refreshed table has one more call, created on some device at createdAt,
\* an instant that is not in the future
DashboardCallArrives(type, createdAt) ==
    /\ Len(dashboard.calls) < MaxTableCalls
    /\ createdAt <= now
    /\ dashboard' = Paint(Append(dashboard.calls,
                                 [type |-> type, status |-> SENT, createdAt |-> createdAt]),
                          dashboard.settings, now)
    /\ UNCHANGED <<now, semFrame>>

\* the refreshed table has one more call whose created_at_ts, the Date.now() of
\* the device that raised it, is ahead of this device's clock
DashboardSkewedCallArrives(type, createdAt) ==
    /\ Len(dashboard.calls) < MaxTableCalls
    /\ createdAt > now
    /\ dashboard' = Paint(Append(dashboard.calls,
                                 [type |-> type, status |-> SENT, createdAt |-> createdAt]),
                          dashboard.settings, now)
    /\ UNCHANGED <<now, semFrame>>

\* the refreshed table has call i in another status
DashboardCallUpdated(i, status) ==
    /\ i \in 1..Len(dashboard.calls)
    /\ dashboard.calls[i].status # status
    /\ dashboard' = Paint([dashboard.calls EXCEPT ![i].status = status],
                          dashboard.settings, now)
    /\ UNCHANGED <<now, semFrame>>

\* a second passes and the dashboard renders again
DashboardClock ==
    /\ now < MaxSeconds * MsPerSecond
    /\ now' = now + MsPerSecond
    /\ dashboard' = Paint(dashboard.calls, dashboard.settings, now')
    /\ UNCHANGED semFrame

\* ------------------------------------------------------------ the polling effect
\* The closure of the polling effect as installed by the render whose
\* dependencies [currentUser?.id, currentUser?.establishmentId] changed: cycle,
\* sendHeartbeat and loadEstablishmentData read isUpdating, currentUser and
\* establishments (has: its keys) of that render until the effect is replaced.
NoEffect == [installed |-> FALSE, isUpdating |-> FALSE, user |-> NoUser, has |-> {}]

\* A cycle() call in flight.  pc = "lookup": the owner_id select is awaited;
\* otherwise hb is the heartbeat update and load the loadEstablishmentData call.
\* A request that is "hung" never gets an answer.
NewCycle(u, hasSet) ==
    IF u.establishmentId # 0
    THEN [pc |-> "own", hb |-> "pending", user |-> u, has |-> hasSet,
          load |-> NewLoad(u.establishmentId, u.establishmentId \in hasSet, u)]
    ELSE [pc |-> "lookup", hb |-> "none", user |-> u, has |-> hasSet, load |-> NoLoad]

\* both branches of the try block completed: the finally block runs
Done(c) == c.pc # "lookup" /\ c.pc # "hung" /\ c.hb \in {"done", "none"} /\ c.load.pc = "done"

\* cycle() awaits something: an ESTABLISHMENT user.  A CUSTOMER whose profile is
\* not in customerProfiles runs setIsUpdating(true) and setIsUpdating(false) in
\* one batch.
Awaits(u) == u.role = ESTABLISHMENT

\* The render that follows the state updates of a handler: u2, hasSet2 and upd2
\* are currentUser, the keys of establishments and isUpdating after them, eff2
\* and cyc2 the effect and the cycles the handler leaves.  When the dependencies
\* changed the interval is cleared, the effect is installed with the closure of
\* this render, and it calls cycle() once.
Render(u2, hasSet2, upd2, eff2, cyc2) ==
    IF Deps(u2) = Deps(currentUser)
    THEN /\ effect' = eff2
         /\ isUpdating' = upd2
         /\ cycles' = cyc2
    ELSE IF u2 = NoUser
    THEN /\ effect' = NoEffect
         /\ isUpdating' = upd2
         /\ cycles' = cyc2
    ELSE /\ effect' = [installed |-> TRUE, isUpdating |-> upd2, user |-> u2, has |-> hasSet2]
         /\ isUpdating' = (upd2 \/ Awaits(u2))
         /\ cycles' = IF ~upd2 /\ Awaits(u2) THEN BagAdd(cyc2, NewCycle(u2, hasSet2)) ELSE cyc2

\* setInterval(cycle, POLLING_INTERVAL) fires: if (isUpdating) return, read from
\* the closure of the effect
Tick ==
    /\ effect.installed
    /\ BagCardinality(cycles) < MaxCycles
    /\ IF effect.isUpdating \/ ~Awaits(effect.user)
       THEN UNCHANGED <<isUpdating, cycles>>
       ELSE /\ isUpdating' = TRUE
            /\ cycles' = BagAdd(cycles, NewCycle(effect.user, effect.has))
    /\ UNCHANGED <<remoteVars, currentUser, establishments, effect, loads, ops, favOps, dashboard, profile>>

\* the cycle c continues as c2, or runs its finally block: setIsUpdating(false)
CycleEnd(c, c2) ==
    IF Done(c2)
    THEN cycles' = BagRemove(cycles, c) /\ isUpdating' = FALSE
    ELSE cycles' = BagReplace(cycles, c, c2) /\ UNCHANGED isUpdating

LoadDone(l) == [l EXCEPT !.pc = "done"]

\* select('id').eq('owner_id', currentUser.id) answered: with a row,
\* setCurrentUser(prev => prev ? {...prev, establishmentId} : null) and the
\* refresh; without, the cycle ends
CycleLookup(c, ok) ==
    /\ c \in BagToSet(cycles) /\ c.pc = "lookup"
    /\ LET e == OwnedBy(c.user.id)
           c2 == [c EXCEPT !.pc = "load", !.load = NewLoad(e, e \in c.has, c.user)]
           u2 == IF currentUser = NoUser THEN NoUser
                 ELSE [currentUser EXCEPT !.establishmentId = e, !.ref = 0]
       IN  IF ok /\ e # 0
           THEN /\ currentUser' = u2
                /\ Render(u2, DOMAIN establishments, isUpdating, effect,
                          BagReplace(cycles, c, c2))
           ELSE /\ cycles' = BagRemove(cycles, c)
                /\ isUpdating' = FALSE
                /\ UNCHANGED <<currentUser, effect>>
    /\ UNCHANGED <<remoteVars, establishments, loads, ops, favOps, dashboard, profile>>

\* sendHeartbeat: update({is_open: true}).eq('id', estId) answered; an error is
\* only logged
CycleHeartbeat(c, ok) ==
    /\ c \in BagToSet(cycles) /\ c.hb = "pending"
    /\ estRows' = IF ok /\ c.load.est \in DOMAIN estRows
                  THEN [estRows EXCEPT ![c.load.est].is_open = TRUE]
                  ELSE estRows
    /\ CycleEnd(c, [c EXCEPT !.hb = "done"])
    /\ UNCHANGED <<calls, favorites, now, currentUser, establishments, effect, loads,
                   ops, favOps, dashboard, profile>>

\* the cycle's loadEstablishmentData: the establishments select answered with a row
CycleLoadEstOk(c) ==
    /\ c \in BagToSet(cycles) /\ c.load.pc = "est"
    /\ c.load.est \in DOMAIN estRows
    /\ cycles' = BagReplace(cycles, c, [c EXCEPT !.load = LoadGotRow(c.load)])
    /\ UNCHANGED <<remoteVars, currentUser, establishments, isUpdating, effect, loads,
                   ops, favOps, dashboard, profile>>

\* ... with an error or no row
CycleLoadEstFail(c) ==
    /\ c \in BagToSet(cycles) /\ c.load.pc = "est"
    /\ establishments' = FallbackCache(c.load)
    /\ CycleEnd(c, [c EXCEPT !.load = LoadDone(c.load)])
    /\ UNCHANGED <<remoteVars, currentUser, effect, loads, ops, favOps, dashboard, profile>>

\* ... or withTimeout rejected first
CycleLoadEstTimeout(c) ==
    /\ c \in BagToSet(cycles) /\ c.load.pc = "est"
    /\ CycleEnd(c, [c EXCEPT !.load = LoadDone(c.load)])
    /\ UNCHANGED <<remoteVars, currentUser, establishments, effect, loads, ops, favOps, dashboard,
                   profile>>

\* the cycle's loadEstablishmentData: the calls select answered
CycleLoadCalls(c, ok) ==
    /\ c \in BagToSet(cycles) /\ c.load.pc = "calls"
    /\ establishments' = AppliedCache(c.load, IF ok THEN ActiveOfEst(c.load.est) ELSE {})
    /\ CycleEnd(c, [c EXCEPT !.load = LoadDone(c.load)])
    /\ UNCHANGED <<remoteVars, currentUser, effect, loads, ops, favOps, dashboard, profile>>

\* A request of the cycle that is not wrapped in withTimeout never gets an
\* answer: the owner_id select, the heartbeat update or the calls select.
CycleHang(c) ==
    /\ c \in BagToSet(cycles)
    /\ \E c2 \in {[c EXCEPT !.pc = "hung"], [c EXCEPT !.hb = "hung"],
                  [c EXCEPT !.load = [c.load EXCEPT !.pc = "hung"]]} :
          /\ \/ c.pc = "lookup" /\ c2.pc = "hung"
             \/ c.hb = "pending" /\ c2.hb = "hung"
             \/ c.load.pc = "calls" /\ c2.load.pc = "hung"
          /\ cycles' = BagReplace(cycles, c, c2)
    /\ UNCHANGED <<remoteVars, currentUser, establishments, isUpdating, effect, loads,
                   ops, favOps, dashboard, profile>>

\* ------------------------------------------------------------ boot and fetchUserProfile
\* boot: getSession() answered with the session of account uid; fetchUserProfile
\* is called and awaits the profiles select
Boot(uid) ==
    /\ profile.pc = "boot"
    /\ profile' = [pc |-> "profile", uid |-> uid]
    /\ UNCHANGED <<remoteVars, currentUser, establishments, isUpdating, effect, cycles,
                   loads, ops, favOps, dashboard>>

\* onAuthStateChange: SIGNED_IN with another account after the previous
\* fetchUserProfile ended; fetchUserProfile(session.user.id) is called
SignedIn(uid) ==
    /\ profile.pc = "done"
    /\ uid # profile.uid
    /\ BagCardinality(loads) < MaxLoads
    /\ BagCardinality(cycles) < MaxCycles
    /\ profile' = [pc |-> "profile", uid |-> uid]
    /\ UNCHANGED <<remoteVars, currentUser, establishments, isUpdating, effect, cycles,
                   loads, ops, favOps, dashboard>>

\* user.establishmentId = est.id on the object fetchUserProfile built: seen by
\* every closure that holds the object
Aliased(u, e) == IF u.ref = 1 THEN [u EXCEPT !.establishmentId = e] ELSE u
AliasedLoad(l, e) == [l EXCEPT !.user = Aliased(l.user, e)]
AliasedCycle(c, e) ==
    [c EXCEPT !.user = Aliased(c.user, e), !.load = AliasedLoad(c.load, e)]
AliasedLoads(B, e) ==
    LET S == BagToSet(B)
    IN  [y \in {AliasedLoad(x, e) : x \in S} |->
            BagCardinality([x \in {z \in S : AliasedLoad(z, e) = y} |-> B[x]])]
AliasedCycles(B, e) ==
    LET S == BagToSet(B)
    IN  [y \in {AliasedCycle(x, e) : x \in S} |->
            BagCardinality([x \in {z \in S : AliasedCycle(z, e) = y} |-> B[x]])]

\* fetchUserProfile without the temporary user: with a missing profile row it
\* returns and nobody is signed in
ProfileSelectNoRecovery(ok) ==
    /\ profile.pc = "profile"
    /\ IF ok
       THEN LET u2 == [id |-> profile.uid, role |-> RoleOf(profile.uid),
                       establishmentId |-> 0, ref |-> 1]
            IN  /\ currentUser' = u2
                /\ Render(u2, DOMAIN establishments, isUpdating, effect, cycles)
                /\ profile' = [profile EXCEPT !.pc = IF u2.role = ESTABLISHMENT
                                                      THEN "owner" ELSE "done"]
       ELSE /\ profile' = [profile EXCEPT !.pc = "done"]
            /\ UNCHANGED <<currentUser, isUpdating, effect, cycles>>
    /\ UNCHANGED <<remoteVars, establishments, loads, ops, favOps, dashboard>>

\* fetchUserProfile: the profiles select answered.  Without a row a temporary
\* CUSTOMER user is set; with one the user is set and, for an ESTABLISHMENT, the
\* owner_id select is awaited
ProfileSelect(ok) ==
    /\ profile.pc = "profile"
    /\ LET u2 == IF ok
                 THEN [id |-> profile.uid, role |-> RoleOf(profile.uid),
                       establishmentId |-> 0, ref |-> 1]
                 ELSE [id |-> profile.uid, role |-> CUSTOMER, establishmentId |-> 0, ref |-> 0]
       IN  /\ currentUser' = u2
           /\ Render(u2, DOMAIN establishments, isUpdating, effect, cycles)
           /\ profile' = [profile EXCEPT !.pc = IF ok /\ u2.role = ESTABLISHMENT
                                                 THEN "owner" ELSE "done"]
    /\ UNCHANGED <<remoteVars, establishments, loads, ops, favOps, dashboard>>

\* fetchUserProfile: the owner_id select answered.  With a row the user object is
\* mutated, setCurrentUser(prev => prev ? {...prev, establishmentId} : null) and
\* loadEstablishmentData(est.id) of the first render (establishments empty,
\* currentUser null) is called
ProfileOwner(ok) ==
    /\ profile.pc = "owner"
    /\ profile' = [profile EXCEPT !.pc = "done"]
    /\ LET e == OwnedBy(profile.uid)
           u2 == IF currentUser = NoUser THEN NoUser
                 ELSE [currentUser EXCEPT !.establishmentId = e, !.ref = 0]
           eff2 == [effect EXCEPT !.user = Aliased(effect.user, e)]
           cyc2 == AliasedCycles(cycles, e)
       IN  IF ok /\ e # 0
           THEN /\ currentUser' = u2
                /\ Render(u2, DOMAIN establishments, isUpdating, eff2, cyc2)
                /\ loads' = BagAdd(AliasedLoads(loads, e),
                                   NewLoad(e, FALSE, NoUser))
                /\ ops' = [ops EXCEPT ![Session].user = Aliased(ops[Session].user, e)]
           ELSE UNCHANGED <<currentUser, isUpdating, effect, cycles, loads, ops>>
    /\ UNCHANGED <<remoteVars, establishments, favOps, dashboard>>

\* ------------------------------------------------------------ sign-out
\* logout(): for an owner with an establishment the update({is_open: false}) is
\* sent and not awaited, then auth.signOut() is awaited.  pc names the requests
\* of the handler that are not answered yet: "both", "signOut" or "close".
logout ==
    /\ currentUser # NoUser
    /\ ops[Session].kind = "idle"
    /\ ops' = [ops EXCEPT ![Session] =
                  [NewOp(Session, "logout", currentUser.establishmentId, "", "",
                         NullSettings, now) EXCEPT
                      !.pc = IF currentUser.role = ESTABLISHMENT
                                  /\ currentUser.establishmentId # 0
                             THEN "both" ELSE "signOut"]]
    /\ UNCHANGED <<remoteVars, sessionVars, favOps, dashboard>>

\* the update({is_open: false}) of logout is answered: .then(() => {})
LogoutClose(ok) ==
    /\ ops[Session].kind = "logout" /\ ops[Session].pc \in {"both", "close"}
    /\ estRows' = IF ok /\ ops[Session].est \in DOMAIN estRows
                  THEN [estRows EXCEPT ![ops[Session].est].is_open = FALSE]
                  ELSE estRows
    /\ ops' = [ops EXCEPT ![Session] =
                  IF @.pc = "both" THEN [@ EXCEPT !.pc = "signOut"] ELSE NoOp]
    /\ UNCHANGED <<calls, favorites, now, sessionVars, favOps, dashboard>>

\* auth.signOut() is answered.  When it succeeded the client has emitted
\* SIGNED_OUT and the listener ran setCurrentUser(null) and
\* setEstablishments(new Map()); logout then runs setCurrentUser(null) whatever
\* the answer was.
LogoutSignOut(ok) ==
    /\ ops[Session].kind = "logout" /\ ops[Session].pc \in {"both", "signOut"}
    /\ currentUser' = NoUser
    /\ establishments' = IF ok THEN EmptyMap ELSE establishments
    /\ Render(NoUser, DOMAIN establishments', isUpdating, effect, cycles)
    /\ ops' = [ops EXCEPT ![Session] =
                  IF @.pc = "both" THEN [@ EXCEPT !.pc = "close"] ELSE NoOp]
    /\ UNCHANGED <<remoteVars, loads, favOps, dashboard, profile>>

\* the auth client emits SIGNED_OUT without a logout() of this hook (the session
\* expired or was ended elsewhere)
SignedOut ==
    /\ currentUser # NoUser
    /\ currentUser' = NoUser
    /\ establishments' = EmptyMap
    /\ Render(NoUser, {}, isUpdating, effect, cycles)
    /\ UNCHANGED <<remoteVars, loads, ops, favOps, dashboard, profile>>

\* ------------------------------------------------------------ specifications
NoFavOp == [pc |-> "idle", uid |-> "none", est |-> 0, variant |-> "", op |-> "", result |-> ""]

\* the state after the hook's first render, with the accounts registered:
\* registerEstablishment inserts settings: DEFAULT_SETTINGS, is_open: true
Init ==
    /\ calls = <<>>
    /\ estRows = [e \in Est |-> [is_open |-> TRUE, settings |-> DEFAULT_SETTINGS]]
    /\ favorites = {}
    /\ now = 0
    /\ currentUser = NoUser
    /\ establishments = EmptyMap
    /\ isUpdating = FALSE
    /\ effect = NoEffect
    /\ cycles = EmptyBag
    /\ loads = EmptyBag
    /\ ops = [k \in Clients |-> NoOp]
    /\ favOps = [k \in Clients |-> NoFavOp]
    /\ profile = [pc |-> "boot", uid |-> "none"]
    /\ dashboard = NoDashboard

LoadStep ==
    \E l \in BagToSet(loads) :
        \/ LoadEstOk(l)
        \/ LoadEstFail(l)
        \/ LoadEstTimeout(l)
        \/ \E ok \in BOOLEAN : LoadCalls(l, ok)

CycleStep ==
    \E c \in BagToSet(cycles) :
        \/ \E ok \in BOOLEAN : CycleLookup(c, ok)
        \/ \E ok \in BOOLEAN : CycleHeartbeat(c, ok)
        \/ CycleLoadEstOk(c)
        \/ CycleLoadEstFail(c)
        \/ CycleLoadEstTimeout(c)
        \/ \E ok \in BOOLEAN : CycleLoadCalls(c, ok)
        \/ CycleHang(c)

\* The owner's session boots, polls and sets totalTables to 0 while a
\* customer's device raises calls for a table beyond the configured count.
SessionKinds == {"updateSettings"}

Next ==
    \/ Boot(Owner)
    \/ \E ok \in BOOLEAN : ProfileSelect(ok)
    \/ \E ok \in BOOLEAN : ProfileOwner(ok)
    \/ Tick
    \/ CycleStep
    \/ LoadStep
    \/ \E kind \in SessionKinds, st \in SettingsValues : StartOp(kind, OwnEst, "", "", st)
    \/ \E ok \in BOOLEAN : DeviceStep(Session, ok)
    \/ DeviceCall(Guest, "addCall", OwnEst, "3", "WAITER", TRUE)

Spec == Init /\ [][Next]_vars

\* Two devices run lifecycle operations against the shared calls table: a
\* customer's device raises calls on two tables and in two types, and both
\* devices run the staff operations on table "1" and type WAITER.
CallsTables == {"1", "2"}
StaffKinds == {"attend", "cancel", "view", "closeTable", "closeWorkday"}
NextCalls ==
    \/ \E t \in CallsTables, ty \in CallTypes, ok \in BOOLEAN :
            DeviceCall(Guest, "addCall", OwnEst, t, ty, ok)
    \/ \E kind \in StaffKinds, ok \in BOOLEAN :
            DeviceCall(Staff, kind, OwnEst, "1", "WAITER", ok)
    \/ \E kind \in {"attend", "cancel"}, ok \in BOOLEAN :
            DeviceCall(Guest, kind, OwnEst, "1", "WAITER", ok)
    \/ \E k \in OtherDevices, ok \in BOOLEAN : DeviceStep(k, ok)
    \/ TimePasses

SpecCalls == Init /\ [][NextCalls]_vars

\* The staff device attends, cancels and views the WAITER calls of table "1"
\* while the customer's device raises calls and cancels its oldest one.
NextOldest ==
    \/ \E t \in CallsTables, ty \in CallTypes :
            DeviceCall(Guest, "addCall", OwnEst, t, ty, TRUE)
    \/ \E kind \in {"attend", "cancel", "view"}, ok \in BOOLEAN :
            DeviceCall(Staff, kind, OwnEst, "1", "WAITER", ok)
    \/ DeviceCall(Guest, "cancel", OwnEst, "1", "WAITER", TRUE)
    \/ \E k \in OtherDevices, ok \in BOOLEAN : DeviceStep(k, ok)
    \/ TimePasses

SpecOldest == Init /\ [][NextOldest]_vars

\* One customer signed in on two devices favourites and unfavourites
\* establishments.
NextFav ==
    \/ \E k \in OtherDevices, e \in FavEsts, ok \in BOOLEAN :
            \/ FavoriteCheck(k, Customer, e, ok)
            \/ FavoriteHook(k, Customer, e, ok)
            \/ Unfavorite(k, Customer, e, ok)
    \/ \E k \in OtherDevices, ok \in BOOLEAN : FavoriteInsert(k, ok)

SpecFav == Init /\ [][NextFav]_vars


\* The dashboard renders one table under every choice of thresholds while
\* calls arrive, change status and grow older.
InitSem ==
    /\ calls = <<>>
    /\ estRows = [e \in Est |-> [is_open |-> TRUE, settings |-> DEFAULT_SETTINGS]]
    /\ favorites = {}
    /\ now = 0
    /\ currentUser = NoUser
    /\ establishments = EmptyMap
    /\ isUpdating = FALSE
    /\ effect = NoEffect
    /\ cycles = EmptyBag
    /\ loads = EmptyBag
    /\ ops = [k \in Clients |-> NoOp]
    /\ favOps = [k \in Clients |-> NoFavOp]
    /\ profile = [pc |-> "boot", uid |-> "none"]
    /\ dashboard \in {Paint(<<>>, th, 0) : th \in Thresholds}

NextSem ==
    \/ \E ty \in CallTypes, at \in Instants : DashboardCallArrives(ty, at)
    \/ \E i \in 1..MaxTableCalls, st \in {SENT, VIEWED, ATTENDED, CANCELED} :
            DashboardCallUpdated(i, st)
    \/ DashboardClock

SpecSem == InitSem /\ [][NextSem]_vars

\* The owner's session boots and runs the lifecycle handlers on table "1" of its
\* establishment while a customer's device raises calls on that table.  Only
\* the session changes the status of a call.
OpsKinds == {"addCall", "addCall_002", "view", "attend", "closeTable", "closeWorkday"}
NextOps ==
    \/ Boot(Owner)
    \/ \E ok \in BOOLEAN : ProfileSelect(ok)
    \/ \E ok \in BOOLEAN : ProfileOwner(ok)
    \/ LoadStep
    \/ \E kind \in OpsKinds : StartOp(kind, OwnEst, "1", "WAITER", NullSettings)
    \/ \E st \in SettingsValues : StartOp("updateSettings", OwnEst, "", "", st)
    \/ viewAllCallsForTable_002(OwnEst, "1")
    \/ \E ok \in BOOLEAN : DeviceStep(Session, ok)
    \/ DeviceCall(Guest, "addCall", OwnEst, "1", "WAITER", TRUE)

SpecOps == Init /\ [][NextOps]_vars

\* The owner's session boots, polls and is signed out, by logout() or by the
\* auth client, while refreshes are in flight.
NextLogout ==
    \/ Boot(Owner)
    \/ \E ok \in BOOLEAN : ProfileSelect(ok)
    \/ \E ok \in BOOLEAN : ProfileOwner(ok)
    \/ Tick
    \/ CycleStep
    \/ LoadStep
    \/ logout
    \/ \E ok \in BOOLEAN : LogoutClose(ok)
    \/ \E ok \in BOOLEAN : LogoutSignOut(ok)
    \/ SignedOut

SpecLogout == Init /\ [][NextLogout]_vars

\* The owner's session closes the workday of its establishment while a
\* customer's device raises calls there and in another establishment.
NextWorkday ==
    \/ Boot(Owner)
    \/ ProfileSelect(TRUE)
    \/ ProfileOwner(TRUE)
    \/ LoadStep
    \/ StartOp("closeWorkday", OwnEst, "", "", NullSettings)
    \/ \E ok \in BOOLEAN : DeviceStep(Session, ok)
    \/ \E e \in Est, t \in CallsTables : DeviceCall(Guest, "addCall", e, t, "WAITER", TRUE)

SpecWorkday == Init /\ [][NextWorkday]_vars

\* The owner's session closes table "1" while a customer's device raises calls
\* on both tables of the establishment and in another establishment.
NextTable ==
    \/ Boot(Owner)
    \/ ProfileSelect(TRUE)
    \/ ProfileOwner(TRUE)
    \/ LoadStep
    \/ StartOp("closeTable", OwnEst, "1", "", NullSettings)
    \/ \E ok \in BOOLEAN : DeviceStep(Session, ok)
    \/ \E e \in Est, t \in CallsTables : DeviceCall(Guest, "addCall", e, t, "WAITER", TRUE)

SpecTable == Init /\ [][NextTable]_vars

\* Two devices raise calls, with either variant of addCall, on the tables of one
\* establishment while the staff device views and attends the calls of table "1".
NextAdd ==
    \/ \E kind \in {"addCall", "addCall_002"}, t \in CallsTables, ty \in CallTypes,
          ok \in BOOLEAN :
            DeviceCall(Guest, kind, OwnEst, t, ty, ok)
    \/ \E kind \in {"addCall", "view", "attend"}, ok \in BOOLEAN :
            DeviceCall(Staff, kind, OwnEst, "1", "WAITER", ok)
    \/ \E ok \in BOOLEAN : DeviceStep(Staff, ok)
    \/ TimePasses

SpecAdd == Init /\ [][NextAdd]_vars

\* A session of the owner or of a customer boots and raises calls in either
\* establishment; the refreshes that follow succeed or get an error.
NextFallback ==
    \/ \E uid \in {Owner, Customer} : Boot(uid)
    \/ \E ok \in BOOLEAN : ProfileSelect(ok)
    \/ \E ok \in BOOLEAN : ProfileOwner(ok)
    \/ \E l \in BagToSet(loads) :
            LoadEstOk(l) \/ LoadEstFail(l) \/ \E ok \in BOOLEAN : LoadCalls(l, ok)
    \/ \E e \in Est : StartOp("addCall", e, "1", "WAITER", NullSettings)
    \/ \E ok \in BOOLEAN : DeviceStep(Session, ok)

SpecFallback == Init /\ [][NextFallback]_vars

\* The owner's session closes table "3", a table beyond the configured count,
\* while a customer's device raises calls on tables "1" and "3".
NextSlots ==
    \/ Boot(Owner)
    \/ ProfileSelect(TRUE)
    \/ ProfileOwner(TRUE)
    \/ LoadStep
    \/ StartOp("closeTable", OwnEst, "3", "", NullSettings)
    \/ \E ok \in BOOLEAN : DeviceStep(Session, ok)
    \/ \E t \in {"1", "3"} : DeviceCall(Guest, "addCall", OwnEst, t, "WAITER", TRUE)

SpecSlots == Init /\ [][NextSlots]_vars

\* The owner's session runs every lifecycle handler of the hook on one table,
\* one at a time, and favourites and unfavourites its establishment; the
\* refreshes the handlers start are answered in any order, and the session may
\* expire.
WriterKinds == {"addCall", "view", "attend", "cancel", "closeTable", "closeWorkday"}

NextWriters ==
    \/ Boot(Owner)
    \/ ProfileSelect(TRUE)
    \/ ProfileOwner(TRUE)
    \/ LoadStep
    \/ /\ loads = EmptyBag
       /\ \/ \E kind \in WriterKinds : StartOp(kind, OwnEst, "1", "WAITER", NullSettings)
          \/ StartOp("updateSettings", OwnEst, "", "", DEFAULT_SETTINGS)
    \/ \E ok \in BOOLEAN : DeviceStep(Session, ok)
    \/ /\ currentUser # NoUser
       /\ \/ FavoriteHook(Session, currentUser.id, OwnEst, TRUE)
          \/ Unfavorite(Session, currentUser.id, OwnEst, TRUE)
    \/ SignedOut

SpecWriters == Init /\ [][NextWriters]_vars


\* The owner's dashboard has subscribed to the calls of its establishment
\* (part_002): customers raise calls, the staff device attends them, RemoteStore
\* pushes change notifications with any payload, and the re-fetches they start
\* are answered.
NextNotify ==
    \/ Boot(Owner)
    \/ ProfileSelect(TRUE)
    \/ ProfileOwner(TRUE)
    \/ LoadStep
    \/ \E ok \in BOOLEAN : DeviceCall(Guest, "addCall_002", OwnEst, "1", "WAITER", ok)
    \/ \E ok \in BOOLEAN : DeviceCall(Staff, "attend", OwnEst, "1", "WAITER", ok)
    \/ \E ok \in BOOLEAN : DeviceStep(Staff, ok)
    \/ \E e \in Est, payload \in Payloads : CallsChanged_002(e, payload)
    \/ \E l \in BagToSet(loads), ok \in BOOLEAN : LoadEst_002(l, ok)
    \/ \E l \in BagToSet(loads), ok \in BOOLEAN : LoadCalls_002(l, ok)

SpecNotify == Init /\ [][NextNotify]_vars


\* The dashboard renders one table under settings whose time thresholds
\* coincide (timeGreen = timeYellow).
CollapsedThresholds ==
    {[timeGreen |-> t, timeYellow |-> t, qtyGreen |-> qg, qtyYellow |-> qg + 1] :
        t \in 0..1, qg \in 0..1}

InitCollapsed ==
    /\ calls = <<>>
    /\ estRows = [e \in Est |-> [is_open |-> TRUE, settings |-> DEFAULT_SETTINGS]]
    /\ favorites = {}
    /\ now = 0
    /\ currentUser = NoUser
    /\ establishments = EmptyMap
    /\ isUpdating = FALSE
    /\ effect = NoEffect
    /\ cycles = EmptyBag
    /\ loads = EmptyBag
    /\ ops = [k \in Clients |-> NoOp]
    /\ favOps = [k \in Clients |-> NoFavOp]
    /\ profile = [pc |-> "boot", uid |-> "none"]
    /\ dashboard \in {Paint(<<>>, th, 0) : th \in CollapsedThresholds}

SpecCollapsed == InitCollapsed /\ [][NextSem]_vars

\* The dashboard renders one table whose calls were raised by devices with
\* clocks ahead of or behind its own.
NextSkew ==
    \/ \E ty \in CallTypes, at \in Instants : DashboardCallArrives(ty, at)
    \/ \E ty \in CallTypes, at \in Instants : DashboardSkewedCallArrives(ty, at)
    \/ \E i \in 1..MaxTableCalls, st \in {VIEWED, ATTENDED} : DashboardCallUpdated(i, st)
    \/ DashboardClock

SpecSkew == InitSem /\ [][NextSkew]_vars

\* One browser session in which the owner and a customer sign in one after the
\* other, with or without a sign-out in between, while the polling timer fires
\* and the requests of its cycles are answered; the refresh fetchUserProfile
\* starts runs into its timeout.
NextTimer ==
    \/ \E uid \in {Owner, Customer} : Boot(uid)
    \/ \E uid \in {Owner, Customer} : SignedIn(uid)
    \/ \E ok \in BOOLEAN : ProfileSelect(ok)
    \/ \E ok \in BOOLEAN : ProfileOwner(ok)
    \/ SignedOut
    \/ Tick
    \/ \E c \in BagToSet(cycles) :
        \/ \E ok \in BOOLEAN : CycleLookup(c, ok)
        \/ CycleHeartbeat(c, TRUE)
        \/ CycleLoadEstOk(c)
        \/ CycleLoadCalls(c, TRUE)
    \/ \E l \in BagToSet(loads) : LoadEstTimeout(l)

SpecTimer == Init /\ [][NextTimer]_vars

\* The owner's session polls and closes the workday of its establishment.  The
\* owner closes the workday while no polling cycle is in flight and the timer
\* does not fire while the handler runs, so every heartbeat answered after the
\* handler belongs to a later cycle.
NextClosed ==
    \/ Boot(Owner)
    \/ ProfileSelect(TRUE)
    \/ ProfileOwner(TRUE)
    \/ LoadStep
    \/ ops[Session].kind = "idle" /\ Tick
    \/ CycleStep
    \/ cycles = EmptyBag /\ StartOp("closeWorkday", OwnEst, "", "", NullSettings)
    \/ \E ok \in BOOLEAN : DeviceStep(Session, ok)

SpecClosed == Init /\ [][NextClosed]_vars

\* The owner's session boots and polls; every request is answered with success;
\* a customer's device raises a bounded number of calls, after which RemoteStore
\* no longer changes.
CycleSucceeds ==
    \E c \in BagToSet(cycles) :
        \/ CycleLookup(c, TRUE)
        \/ CycleHeartbeat(c, TRUE)
        \/ CycleLoadEstOk(c)
        \/ CycleLoadCalls(c, TRUE)

LoadSucceeds == \E l \in BagToSet(loads) : LoadEstOk(l) \/ LoadCalls(l, TRUE)

SessionBoots == Boot(Owner) \/ ProfileSelect(TRUE) \/ ProfileOwner(TRUE)

NextConverge ==
    \/ SessionBoots
    \/ Tick
    \/ CycleSucceeds
    \/ LoadSucceeds
    \/ DeviceCall(Guest, "addCall", OwnEst, "1", "WAITER", TRUE)

\* the timer keeps firing and every request in flight is answered
SpecConverge ==
    /\ Init /\ [][NextConverge]_vars
    /\ WF_vars(SessionBoots)
    /\ WF_vars(Tick)
    /\ WF_vars(CycleSucceeds)
    /\ WF_vars(LoadSucceeds)

\* boot without a session: no remote client is configured, getSession() answers
\* without a session (none stored, or an error), or it throws; fetchUserProfile
\* is not called and nobody is signed in
BootNoSession ==
    /\ profile.pc = "boot"
    /\ profile' = [pc |-> "done", uid |-> "none"]
    /\ UNCHANGED <<remoteVars, currentUser, establishments, isUpdating, effect, cycles,
                   loads, ops, favOps, dashboard>>

\* boot's finally { setIsInitialized(true) } has run: boot returned without a
\* session, or the fetchUserProfile it awaits has returned, the
\* loadEstablishmentData that fetchUserProfile awaits for an owner included
isInitialized ==
    /\ profile.pc = "done"
    /\ \A l \in BagToSet(loads) : l.user # NoUser

\* every request of boot is answered: with data, with an error or, for the
\* establishments select, by the timeout
BootAnswered ==
    \/ BootNoSession
    \/ \E uid \in {Owner, Customer} : Boot(uid)
    \/ \E ok \in BOOLEAN : ProfileSelect(ok)
    \/ \E ok \in BOOLEAN : ProfileOwner(ok)
    \/ LoadStep

\* The hook boots, on every path, while a customer's device raises calls.
NextBoot ==
    \/ BootAnswered
    \/ \E t \in CallsTables : DeviceCall(Guest, "addCall", OwnEst, t, "WAITER", TRUE)
    \/ TimePasses

SpecBoot == Init /\ [][NextBoot]_vars /\ WF_vars(BootAnswered)

\* ------------------------------------------------------------ properties
\* the loadEstablishmentData calls for establishment e that await RemoteStore
CycleLoads(e) ==
    [c \in {x \in BagToSet(cycles) : x.load.est = e /\ x.load.pc # "done"} |-> cycles[c]]
WriteLoads(e) == [l \in {x \in BagToSet(loads) : x.est = e} |-> loads[l]]
InFlight(e) == BagCardinality(CycleLoads(e)) + BagCardinality(WriteLoads(e))

\* C1: for every establishment at most one refresh (loadEstablishmentData
\* fetch) is in flight at any time, whatever the interleaving of timer ticks and
\* write-triggered refreshes.
AtMostOneRefreshInFlight == \A e \in Est : InFlight(e) <= 1

\* C2: two polling cycles of the session never overlap: a tick that fires
\* while a cycle is still running starts no heartbeat and no fetch.
NoOverlappingCycles == BagCardinality(cycles) <= 1

\* C3: every polling cycle that started ends and releases the guard also when a
\* RemoteStore call made inside it never responds: no cycle is left with nothing
\* but unanswered requests to wait for.
Answerable(c) == c.pc = "lookup" \/ c.hb = "pending" \/ c.load.pc \in {"est", "calls"}
CycleAlwaysEnds == \A c \in BagToSet(cycles) : Answerable(c)

\* a refresh of establishment e fails in this step: its establishments select
\* returns an error or no row, or times out
RefreshFails(e) ==
    \/ \E l \in BagToSet(loads) : l.est = e /\ (LoadEstFail(l) \/ LoadEstTimeout(l))
    \/ \E c \in BagToSet(cycles) :
            c.load.est = e /\ (CycleLoadEstFail(c) \/ CycleLoadEstTimeout(c))

\* C4: serve-stale.  Whenever a refresh of establishment e fails while the cache
\* holds an aggregate for e, the cached aggregate is left unchanged and no
\* placeholder is substituted, for every caller.
ServeStale ==
    [][\A e \in Est :
        (RefreshFails(e) /\ e \in DOMAIN establishments)
        => (e \in DOMAIN establishments' /\ establishments'[e] = establishments[e])]_vars

\* the table map has exactly the slots 1..n, each without calls
EmptySized(tables, n) ==
    /\ DOMAIN tables = {ToString(i) : i \in 1..n}
    /\ \A t \in DOMAIN tables : tables[t] = <<>>

\* C5: when the owner's session has no cache entry for its establishment and
\* the fetch for it fails, the cache receives a placeholder with isOpen = true
\* and a table map without calls that has one entry per table of the default
\* settings.
OwnerGetsSizedPlaceholder ==
    [][\A e \in Est :
        (RefreshFails(e) /\ IsOwnerOf(currentUser, e) /\ e \notin DOMAIN establishments)
        => /\ e \in DOMAIN establishments'
           /\ establishments'[e].isOpen
           /\ EmptySized(establishments'[e].tables, DEFAULT_SETTINGS.totalTables)]_vars

\* C6: every aggregate in the establishments map has a table-map entry for
\* every table number 1..settings.totalTables.
NoMissingSlot ==
    \A e \in DOMAIN establishments :
        \A i \in 1..establishments[e].settings.totalTables :
            ToString(i) \in DOMAIN establishments[e].tables

\* the status DAG of a call: SENT -> VIEWED -> {ATTENDED, CANCELED}, SENT -> terminal
Forward(a, b) ==
    \/ a = b
    \/ a = SENT /\ b \in {VIEWED, ATTENDED, CANCELED}
    \/ a = VIEWED /\ b \in TerminalStatuses

\* C7: across any interleaving of the lifecycle operations of several devices a
\* call's status only moves forward along SENT -> VIEWED -> {ATTENDED, CANCELED};
\* an ATTENDED or CANCELED call never changes status again and a VIEWED call
\* never returns to SENT.
StatusOnlyMovesForward ==
    [][\A id \in CallIds : Forward(calls[id].status, calls'[id].status)]_vars

\* the call id is active, of this table and type, and no active call of the
\* table and type was created before it
IsOldestActiveCall(id, e, t, ty) ==
    /\ calls[id].est = e /\ calls[id].table = t /\ calls[id].type = ty
    /\ calls[id].status \in {SENT, VIEWED}
    /\ \A j \in CallIds :
          (calls[j].est = e /\ calls[j].table = t /\ calls[j].type = ty
             /\ calls[j].status \in {SENT, VIEWED})
          => calls[id].createdAt <= calls[j].createdAt

\* C8: attendOldestCallByType / cancelOldestCallByType change exactly one call.
\* Its select picks one call, an active call of the given establishment, table
\* and type with the minimum createdAt, and changes nothing (with no such call
\* the handler ends there); its update then changes the status of that call
\* alone, to ATTENDED / CANCELED, and no other row of the calls table.
OldestChangesOneCall ==
    [][\A k \in OtherDevices :
        /\ (ops'[k].kind \in {"attend", "cancel"} /\ ops'[k].pc = "update"
              /\ ops[k] # ops'[k])
           => /\ calls' = calls
              /\ \E id \in CallIds :
                    /\ ops'[k].sel = {id}
                    /\ IsOldestActiveCall(id, ops'[k].est, ops'[k].table, ops'[k].type)
        /\ (ops[k].kind \in {"attend", "cancel"} /\ ops[k].pc = "update"
              /\ ops[k] # ops'[k])
           => \E id \in ops[k].sel :
                 /\ Len(calls') = Len(calls)
                 /\ \A j \in CallIds \ {id} : calls'[j] = calls[j]
                 /\ \/ calls'[id] = calls[id]
                    \/ calls'[id] = [calls[id] EXCEPT
                          !.status = IF ops[k].kind = "attend" THEN ATTENDED ELSE CANCELED]
      ]_vars

\* an attend consumed the older of two WAITER calls of table "1" although it
\* was inserted later, and left the other call SENT
OldestActedWitness ==
    \E i, j \in CallIds :
        /\ i > j
        /\ calls[i].table = calls[j].table /\ calls[i].type = calls[j].type
        /\ calls[i].createdAt < calls[j].createdAt
        /\ calls[i].status = ATTENDED
        /\ calls[j].status = SENT


\* C9: no user ever holds more than 3 favourites, also after concurrent
\* favoriteEstablishment calls by the same user.
AtMostThreeFavorites == Cardinality(FavoritesOf(Customer)) <= 3

\* a favoriteEstablishment call of device k returns in this step
FavoriteReturns(k) ==
    /\ favOps'[k] # favOps[k]
    /\ favOps'[k].pc = "idle"
    /\ favOps'[k].op = "favorite"

\* C10: re-adding an establishment that is in the user's favourites
\* changes nothing and is never refused, whatever the count (1..3) the user holds;
\* an error RemoteStore reports for the request itself is not counted.
ReAddNeverRefused ==
    [][\A k \in OtherDevices :
        (FavoriteReturns(k) /\ <<favOps'[k].uid, favOps'[k].est>> \in favorites)
        => /\ favorites' = favorites
           /\ favOps'[k].result \in {"ok", "failed"}
      ]_vars

\* ------------------------------------------------------------ semaphore properties
\* the calls of the rendered table with status SENT or VIEWED
ActiveRendered == SelectSeq(dashboard.calls, LAMBDA c : c.status \in {SENT, VIEWED})

\* the largest number of active calls of one type on the rendered table
MaxCount ==
    LET counts == {Len(SelectSeq(ActiveRendered, LAMBDA c : c.type = ty)) : ty \in CallTypes}
    IN  CHOOSE n \in counts : \A m \in counts : m <= n

\* milliseconds since the earliest createdAt among the active calls
ElapsedMs ==
    LET created == {ActiveRendered[i].createdAt : i \in 1..Len(ActiveRendered)}
    IN  now - (CHOOSE m \in created : \A x \in created : m <= x)

Rank(st) == CASE st = IDLE -> 0 [] st = GREEN -> 1 [] st = YELLOW -> 2 [] st = RED -> 3

\* C11: quantity escalation of getTableSemaphoreStatus.  Independently of the
\* elapsed time the table status is RED when some type has more than qtyYellow
\* active calls and at least YELLOW when some type has more than qtyGreen.
QuantityEscalates ==
    \A st \in {dashboard.tableStatus, dashboard.tableStatus_002} :
        /\ MaxCount > dashboard.settings.qtyYellow => st = RED
        /\ MaxCount > dashboard.settings.qtyGreen => st \in {YELLOW, RED}

\* C12: time escalation of getTableSemaphoreStatus.  With elapsed the time since
\* the minimum createdAt of the active calls, the table status is RED when
\* elapsed > timeYellow, at least YELLOW when timeGreen < elapsed <= timeYellow,
\* and GREEN when elapsed <= timeGreen and no quantity trigger applies.
TimeEscalates ==
    Len(ActiveRendered) > 0 =>
        \A st \in {dashboard.tableStatus, dashboard.tableStatus_002} :
            /\ ElapsedMs > dashboard.settings.timeYellow * MsPerSecond => st = RED
            /\ (ElapsedMs > dashboard.settings.timeGreen * MsPerSecond
                  /\ ElapsedMs <= dashboard.settings.timeYellow * MsPerSecond)
               => st \in {YELLOW, RED}
            /\ (ElapsedMs <= dashboard.settings.timeGreen * MsPerSecond
                  /\ MaxCount <= dashboard.settings.qtyGreen)
               => st = GREEN

\* one active call older than timeYellow, below every quantity threshold, is RED
TimeEscalatesWitness ==
    /\ Len(dashboard.calls) = 1 /\ Len(ActiveRendered) = 1
    /\ dashboard.settings.qtyGreen >= 1
    /\ dashboard.settings.timeGreen = 0
    /\ ElapsedMs = 2000
    /\ dashboard.tableStatus = RED /\ dashboard.tableStatus_002 = RED

\* C13: for settings with timeGreen < timeYellow and qtyGreen < qtyYellow the
\* table status never decreases in the order IDLE < GREEN < YELLOW < RED when
\* time passes with the call set fixed, nor when one more active call is added.
UrgencyNeverDecreases ==
    [][(/\ dashboard.settings.timeGreen < dashboard.settings.timeYellow
        /\ dashboard.settings.qtyGreen < dashboard.settings.qtyYellow
        /\ \/ dashboard'.calls = dashboard.calls /\ now' > now
           \/ /\ now' = now
              /\ Len(dashboard'.calls) = Len(dashboard.calls) + 1
              /\ SubSeq(dashboard'.calls, 1, Len(dashboard.calls)) = dashboard.calls
              /\ dashboard'.calls[Len(dashboard'.calls)].status \in {SENT, VIEWED})
       => /\ Rank(dashboard'.tableStatus) >= Rank(dashboard.tableStatus)
          /\ Rank(dashboard'.tableStatus_002) >= Rank(dashboard.tableStatus_002)]_vars

\* a second active call of the same type arrived on a table that was not yet
\* timeGreen old: the quantity raised the status of part_002 to RED
UrgencyWitness ==
    /\ Len(dashboard.calls) = 2 /\ Len(ActiveRendered) = 2
    /\ dashboard.calls[1].type = dashboard.calls[2].type
    /\ dashboard.settings.qtyGreen = 0 /\ dashboard.settings.timeGreen = 1
    /\ ElapsedMs = 1000
    /\ dashboard.tableStatus = GREEN /\ dashboard.tableStatus_002 = RED

\* C14: getTableSemaphoreStatus and getCallTypeSemaphoreStatus return IDLE
\* exactly when the table has no SENT or VIEWED call (of the given type, for the
\* call-type functions), whatever ATTENDED or CANCELED calls it holds.
IdleIffNoActive ==
    /\ \A st \in {dashboard.tableStatus, dashboard.tableStatus_002} :
            st = IDLE <=> Len(ActiveRendered) = 0
    /\ \A ty \in CallTypes :
          \A st \in {getCallTypeSemaphoreStatus(dashboard.calls, ty, dashboard.settings, now),
                     getCallTypeSemaphoreStatus_002(dashboard.calls, ty, dashboard.settings, now)} :
            st = IDLE <=> \A i \in 1..Len(ActiveRendered) : ActiveRendered[i].type # ty

\* a table that holds an ATTENDED and a CANCELED call, both older than
\* timeYellow, and no active call is IDLE
IdleWitness ==
    /\ Len(dashboard.calls) = 2
    /\ {dashboard.calls[1].status, dashboard.calls[2].status} = {ATTENDED, CANCELED}
    /\ \A i \in 1..2 : now - dashboard.calls[i].createdAt > dashboard.settings.timeYellow * MsPerSecond
    /\ dashboard.tableStatus = IDLE /\ dashboard.tableStatus_002 = IDLE
    /\ \A ty \in CallTypes :
          getCallTypeSemaphoreStatus(dashboard.calls, ty, dashboard.settings, now) = IDLE

\* ------------------------------------------------------------ handler properties
\* what a completed viewAllCallsForTable leaves when nothing happened since: the
\* table holds VIEWED calls and no SENT call (the session is the only device
\* that changes a status in SpecOps)
ViewedAll(e, t) ==
    /\ SentOnTable(e, t) = {}
    /\ \E id \in CallIds :
          calls[id].est = e /\ calls[id].table = t /\ calls[id].status = VIEWED

\* C15: viewAllCallsForTable is idempotent.  A run on a table whose SENT calls
\* a previous run has all set to VIEWED, with no operation in between, issues no
\* status update and leaves every call as it was.
ViewTwiceChangesNothing ==
    [][LET o == ops[Session]
           o2 == ops'[Session]
           run == IF o.kind \in {"view", "view_002"} THEN o ELSE o2
       IN  (o2 # o /\ run.kind \in {"view", "view_002"} /\ ViewedAll(run.est, run.table))
           => calls' = calls /\ o2.pc # "update"]_vars

\* C16: every mutating lifecycle operation is followed by a re-fetch of the
\* establishment whether its write succeeded or failed, and the cache is never
\* set by the handler itself: the step that answers a handler's write starts a
\* loadEstablishmentData(est) and leaves establishments as it was.
RefreshFollowsEveryWrite ==
    [][LET o == ops[Session]
       IN  (o.kind # "idle" /\ ops'[Session] # o)
           => /\ establishments' = establishments
              /\ (o.pc \in {"insert", "update", "updateCalls"})
                 => /\ BagCardinality(loads') = BagCardinality(loads) + 1
                    /\ \E l \in BagToSet(loads') :
                          /\ l.est = o.est /\ l.pc = "est"
                          /\ CopiesIn(l, loads') = CopiesIn(l, loads) + 1]_vars

\* C17: after logout or a SIGNED_OUT event the polling timer of the session no
\* longer fires and no refresh that was in flight writes the cache: while no
\* user is signed in the timer is cleared and the establishments cache is empty.
SignedOutCacheStaysEmpty ==
    currentUser = NoUser => ~effect.installed /\ establishments = EmptyMap

\* a request of the polling cycle c is answered with a failure in this step: the
\* heartbeat update, the establishments select (error, no row or timeout) or
\* the calls select
CycleRequestFails(c) ==
    \/ CycleHeartbeat(c, FALSE)
    \/ CycleLoadEstFail(c)
    \/ CycleLoadEstTimeout(c)
    \/ CycleLoadCalls(c, FALSE)

\* C18: a failing background refresh is absorbed by the polling cycle.  When a
\* request of a cycle fails the cycle goes on or ends with the guard released,
\* currentUser is unchanged, and the cache entry of the establishment is the
\* aggregate it held before or the owner's placeholder; no other entry changes.
CycleAbsorbsFailures ==
    [][\A c \in BagToSet(cycles) :
        CycleRequestFails(c)
        => /\ currentUser' = currentUser
           /\ BagCardinality(cycles') < BagCardinality(cycles) => ~isUpdating'
           /\ \A e \in DOMAIN establishments' :
                 \/ e \in DOMAIN establishments /\ establishments'[e] = establishments[e]
                 \/ /\ e = c.load.est /\ IsOwnerOf(currentUser, e)
                    /\ establishments'[e] = FallbackEst
           /\ (IsOwnerOf(currentUser, c.load.est) \/ c.load.est \in DOMAIN establishments)
              => c.load.est \in DOMAIN establishments']_vars

\* the step started a loadEstablishmentData(e)
RefreshStarted(e) ==
    /\ BagCardinality(loads') = BagCardinality(loads) + 1
    /\ \E l \in BagToSet(loads') :
          l.est = e /\ l.pc = "est" /\ CopiesIn(l, loads') = CopiesIn(l, loads) + 1

\* C19: closeEstablishmentWorkday(id) sets is_open of establishment id to false
\* and changes every SENT or VIEWED call of that establishment, on every table,
\* to CANCELED; the rows of other establishments, their calls and the calls
\* already ATTENDED or CANCELED are unchanged (a write that fails changes
\* nothing); a refresh of the establishment follows the second write.
WorkdayCloseCancelsAll ==
    [][LET o == ops[Session]
           Closed == [e \in Est |->
                        IF e = o.est THEN [estRows[e] EXCEPT !.is_open = FALSE]
                        ELSE estRows[e]]
           Canceled == [id \in CallIds |->
                          IF calls[id].est = o.est /\ calls[id].status \in {SENT, VIEWED}
                          THEN [calls[id] EXCEPT !.status = CANCELED]
                          ELSE calls[id]]
       IN  /\ CloseWorkdayEst(Session, o, TRUE) => estRows' = Closed /\ calls' = calls
           /\ CloseWorkdayEst(Session, o, FALSE) => estRows' = estRows /\ calls' = calls
           /\ CloseWorkdayCalls(Session, o, TRUE)
              => calls' = Canceled /\ estRows' = estRows /\ RefreshStarted(o.est)
           /\ CloseWorkdayCalls(Session, o, FALSE)
              => calls' = calls /\ estRows' = estRows /\ RefreshStarted(o.est)]_vars

\* the workday of the owner's establishment was closed while another
\* establishment had a SENT call: that call and that establishment are as they
\* were, the owner's call is CANCELED and the refresh is in flight
WorkdayClosedWitness ==
    /\ Len(calls) = 2
    /\ calls[1].est = 2 /\ calls[1].status = SENT
    /\ calls[2].est = OwnEst /\ calls[2].status = CANCELED
    /\ ~estRows[OwnEst].is_open /\ estRows[2].is_open
    /\ ops[Session].kind = "idle"
    /\ \E l \in BagToSet(loads) : l.est = OwnEst

\* C20: closeTable(establishment, table) changes every SENT or VIEWED call on
\* that table to ATTENDED and no call of another table or establishment and no
\* call that is already ATTENDED or CANCELED (a write that fails changes
\* nothing).
CloseTableAttendsTable ==
    [][LET o == ops[Session]
           Attended == [id \in CallIds |->
                          IF /\ calls[id].est = o.est /\ calls[id].table = o.table
                             /\ calls[id].status \in {SENT, VIEWED}
                          THEN [calls[id] EXCEPT !.status = ATTENDED]
                          ELSE calls[id]]
       IN  /\ CloseTableUpdate(Session, o, TRUE) => calls' = Attended /\ estRows' = estRows
           /\ CloseTableUpdate(Session, o, FALSE) => calls' = calls /\ estRows' = estRows]_vars

\* table "1" was closed while table "2" had a SENT call: that call is still
\* SENT and the call of table "1" is ATTENDED
TableClosedWitness ==
    /\ Len(calls) = 2
    /\ calls[1].est = OwnEst /\ calls[1].table = "2" /\ calls[1].status = SENT
    /\ calls[2].est = OwnEst /\ calls[2].table = "1" /\ calls[2].status = ATTENDED

\* C21: viewAllCallsForTable(establishment, table) changes the calls of that
\* table whose status is SENT to VIEWED and nothing else.  The update it issues
\* is for the SENT calls of the table, at least one, and the step that executes
\* it changes no call that is not a SENT call of that table.
ViewChangesOnlySent ==
    [][\A k \in Clients :
        /\ (ops'[k].kind \in {"view", "view_002"} /\ ops'[k].pc = "update"
              /\ ops[k].pc # "update")
           => /\ ops'[k].sel # {}
              /\ ops'[k].sel = SentOnTable(ops'[k].est, ops'[k].table)
        /\ (ops[k].kind \in {"view", "view_002"} /\ ops[k].pc = "update"
              /\ ops'[k].pc # "update")
           => /\ Len(calls') = Len(calls)
              /\ \A id \in CallIds :
                    \/ calls'[id] = calls[id]
                    \/ /\ calls[id].est = ops[k].est /\ calls[id].table = ops[k].table
                       /\ calls[id].status = SENT
                       /\ calls'[id] = [calls[id] EXCEPT !.status = VIEWED]]_vars

\* the active calls of establishment e, table t and type ty in the table cs
ActiveCount(cs, e, t, ty) ==
    Cardinality({id \in 1..Len(cs) :
                    /\ cs[id].est = e /\ cs[id].table = t /\ cs[id].type = ty
                    /\ cs[id].status \in {SENT, VIEWED}})

\* C22: addCall does not de-duplicate.  Every addCall whose insert is executed
\* adds one new call with status SENT for its establishment, table and type,
\* whatever calls the table holds already: the table has one more active call
\* of that type and every existing call is as it was.
AddCallAlwaysInserts ==
    [][\A k \in OtherDevices, kind \in {"addCall", "addCall_002"}, e \in Est,
         t \in CallsTables, ty \in CallTypes, at \in 0..now :
          LET o == NewOp(k, kind, e, t, ty, NullSettings, at)
          IN  (AddCallInsert(k, o, TRUE) \/ AddCallInsert_002(k, o, TRUE))
              => /\ Len(calls') = Len(calls) + 1
                 /\ \A id \in CallIds : calls'[id] = calls[id]
                 /\ calls'[Len(calls')] =
                       [est |-> e, table |-> t, type |-> ty, status |-> SENT, createdAt |-> at]
                 /\ ActiveCount(calls', e, t, ty) = ActiveCount(calls, e, t, ty) + 1]_vars

\* two addCall invocations with the same establishment, table and type left two
\* SENT calls
AddCallTwiceWitness ==
    /\ Len(calls) = 2
    /\ calls[1].est = calls[2].est /\ calls[1].table = calls[2].table
    /\ calls[1].type = calls[2].type
    /\ calls[1].status = SENT /\ calls[2].status = SENT

\* C23: a timeout of the establishments select is handled like an error of that
\* select: for the same cache and the same caller the step in which
\* loadEstablishmentData times out leaves the cache that the error branch would
\* leave (the entry kept when there is one, the placeholder for the owner
\* without an entry, nothing for any other caller).
TimeoutHandledAsError ==
    [][/\ \A l \in BagToSet(loads) :
            LoadEstTimeout(l) => establishments' = FallbackCache(l)
       /\ \A c \in BagToSet(cycles) :
            CycleLoadEstTimeout(c) => establishments' = FallbackCache(c.load)]_vars

\* C24: the placeholder is synthesized only for the establishment of the owner
\* session.  When the establishments select of a refresh fails for an id that
\* has no cache entry and the session's user is a customer, or an owner of
\* another establishment, the cache is left as it was and loadEstablishmentData
\* returns null.
PlaceholderOnlyForOwner ==
    [][\A l \in BagToSet(loads) :
        (LoadEstFail(l) /\ l.est \notin DOMAIN establishments
           /\ ~IsOwnerOf(currentUser, l.est))
        => establishments' = establishments /\ FallbackResult(l) = "null"]_vars

\* a customer raised a call and the refresh that followed failed: it is over and
\* the cache is still empty
CustomerFailedLoadWitness ==
    /\ currentUser.role = CUSTOMER
    /\ Len(calls) = 1
    /\ ops[Session].kind = "idle" /\ loads = EmptyBag
    /\ establishments = EmptyMap

\* C25: after every successful refresh of establishment e the cached table map
\* has an entry for every table number that ever received a call of e, also
\* for a table beyond totalTables whose calls are all ATTENDED or CANCELED.
EveryCalledTableIsCached ==
    [][\A l \in BagToSet(loads) :
        LoadCalls(l, TRUE)
        => \A id \in CallIds :
              calls[id].est = l.est
              => calls[id].table \in DOMAIN establishments'[l.est].tables]_vars

\* C26: a successful refresh replaces the cache entry of its establishment
\* wholesale.  The aggregate stored is built from the establishments row and the
\* calls the refresh read and from nothing else: isOpen and settings are the
\* row's, the tables are the slots 1..totalTables and the tables of the calls
\* read, every table lists exactly the calls read for it with their current
\* type, status and createdAt; the entries of other ids are untouched.
RefreshReplacesWholesale ==
    [][\A l \in BagToSet(loads) :
        LoadCalls(l, TRUE)
        => LET a == establishments'[l.est]
               read == {id \in CallIds : calls[id].est = l.est
                                          /\ calls[id].status \in {SENT, VIEWED}}
           IN  /\ DOMAIN establishments' = DOMAIN establishments \cup {l.est}
               /\ \A e \in DOMAIN establishments \ {l.est} :
                     establishments'[e] = establishments[e]
               /\ a.isOpen = l.row.is_open
               /\ a.settings = IF l.row.settings = NullSettings
                               THEN DEFAULT_SETTINGS ELSE l.row.settings
               /\ DOMAIN a.tables =
                     {calls[id].table : id \in read}
                        \cup {ToString(i) : i \in 1..SlotCount(l.row.settings)}
               /\ \A t \in DOMAIN a.tables :
                     /\ Len(a.tables[t]) = Cardinality({id \in read : calls[id].table = t})
                     /\ \A i \in 1..Len(a.tables[t]) :
                           LET id == a.tables[t][i].id
                           IN  /\ id \in read /\ calls[id].table = t
                               /\ a.tables[t][i] =
                                     [id |-> id, type |-> calls[id].type,
                                      status |-> calls[id].status,
                                      createdAt |-> calls[id].createdAt]]_vars

\* table "1" was closed and the refresh that followed replaced the aggregate:
\* the cached table "1" is empty and the cached table "2" lists its SENT call
RefreshedAfterCloseWitness ==
    /\ Len(calls) = 2
    /\ calls[1].est = OwnEst /\ calls[1].table = "1" /\ calls[1].status = ATTENDED
    /\ calls[2].est = OwnEst /\ calls[2].table = "2" /\ calls[2].status = SENT
    /\ loads = EmptyBag /\ ops[Session].kind = "idle"
    /\ OwnEst \in DOMAIN establishments
    /\ establishments[OwnEst].tables["1"] = <<>>
    /\ Len(establishments[OwnEst].tables["2"]) = 1

\* C27: the establishments cache is written only on the refresh path and
\* cleared on sign-out.  Every step that changes the cache is the answer to a
\* request of loadEstablishmentData (its fallback branch or its calls select,
\* called directly or by a polling cycle) or a sign-out; no step of a lifecycle
\* handler or of a favourite operation changes it.
CacheWrittenOnlyByRefresh ==
    [][establishments' # establishments
       => \/ \E l \in BagToSet(loads) :
                LoadEstFail(l) \/ \E ok \in BOOLEAN : LoadCalls(l, ok)
          \/ \E c \in BagToSet(cycles) :
                CycleLoadEstFail(c) \/ \E ok \in BOOLEAN : CycleLoadCalls(c, ok)
          \/ SignedOut
          \/ LogoutSignOut(TRUE)]_vars

\* a handler has written an active call and ended, its refresh is in flight, and
\* the cached aggregate still shows the table without calls
CacheBehindWitness ==
    /\ ops[Session].kind = "idle"
    /\ loads # EmptyBag
    /\ ActiveOnTable(OwnEst, "1") # {}
    /\ OwnEst \in DOMAIN establishments
    /\ "1" \in DOMAIN establishments[OwnEst].tables
    /\ establishments[OwnEst].tables["1"] = <<>>

\* C28: a change notification for an establishment only triggers a re-fetch of
\* that establishment.  The step that handles a notification, whatever its
\* payload, leaves the cache and RemoteStore as they are and starts one refresh
\* of that establishment; the step that ends such a refresh stores the aggregate
\* built from the row and the calls RemoteStore returned to it.
NotificationOnlyRefetches ==
    [][/\ \A e \in Est, payload \in Payloads :
            CallsChanged_002(e, payload)
            => /\ establishments' = establishments
               /\ calls' = calls /\ estRows' = estRows
               /\ \E l \in BagToSet(loads') :
                     /\ l.est = e /\ l.pc = "est_002" /\ l.row = NoRow
                     /\ loads' = BagAdd(loads, l)
       /\ \A l \in BagToSet(loads) :
            /\ LoadEst_002(l, TRUE)
               => \E l2 \in BagToSet(loads') :
                     /\ l2.est = l.est /\ l2.row = estRows[l.est]
                     /\ loads' = BagReplace(loads, l, l2)
            /\ \A ok \in BOOLEAN :
                 LoadCalls_002(l, ok)
                 => establishments' =
                      Put(establishments, l.est,
                          FullEst_002(l.row, IF ok THEN CallsOfEst(l.est) ELSE {}))]_vars

\* a re-fetch started by a notification has stored an aggregate that lists a
\* call another device attended
NotifiedRefetchWitness ==
    /\ OwnEst \in DOMAIN establishments
    /\ "1" \in DOMAIN establishments[OwnEst].tables
    /\ \E i \in 1..Len(establishments[OwnEst].tables["1"]) :
            establishments[OwnEst].tables["1"][i].status = ATTENDED

\* C29: a refresh issued by a lifecycle operation after its remote write reads
\* RemoteStore after that write, so the aggregate it stores contains the
\* write's effect.  Whenever the calls select of a refresh a handler of the
\* session started is answered (the handler's user is the closure's, never
\* null), the aggregate stored for the establishment is the one RemoteStore
\* holds then: its row, and every call that is active after the write, with
\* its status.
RefreshStoresWriteEffect ==
    [][\A l \in BagToSet(loads) :
        l.user # NoUser
        => \A ok \in BOOLEAN :
              LoadCalls(l, ok)
              => /\ l.est \in DOMAIN establishments'
                 /\ establishments'[l.est] = FullEst(estRows[l.est], ActiveOfEst(l.est))]_vars

\* C30: getCallTypeSemaphoreStatus applies the time rule of
\* getTableSemaphoreStatus to the active calls of one type on one table.  With
\* elapsed measured from the minimum createdAt among those calls, whatever
\* their order in the list, the status of the type is RED when
\* elapsed > timeYellow, YELLOW when timeGreen < elapsed <= timeYellow, and
\* GREEN otherwise.
TypeStatusByTime ==
    \A type \in CallTypes :
        LET ofType == SelectSeq(dashboard.calls, LAMBDA c : c.type = type /\ ActiveCall(c))
            elapsed == now - OldestCreatedAt(ofType)
            byTime == IF elapsed > dashboard.settings.timeYellow * MsPerSecond THEN RED
                      ELSE IF elapsed > dashboard.settings.timeGreen * MsPerSecond THEN YELLOW
                      ELSE GREEN
        IN  Len(ofType) > 0 =>
                /\ getCallTypeSemaphoreStatus(dashboard.calls, type, dashboard.settings, now)
                        = byTime
                /\ getCallTypeSemaphoreStatus_002(dashboard.calls, type, dashboard.settings, now)
                        = byTime

\* C31 as stated: with timeGreen = timeYellow getTableSemaphoreStatus returns
\* only IDLE, GREEN or RED, for every set of active calls and every elapsed time.
NeverYellowWhenCollapsed ==
    dashboard.settings.timeGreen = dashboard.settings.timeYellow
    => \A st \in {dashboard.tableStatus, dashboard.tableStatus_002} :
            st \in {IDLE, GREEN, RED}

\* C31 amended: with timeGreen = timeYellow getTableSemaphoreStatus returns a
\* status for every set of calls and every elapsed time, and the time rule
\* never gives YELLOW: the status is YELLOW only when the quantity rule asks for
\* it (the largest count of a type is above qtyGreen and not above qtyYellow)
\* while elapsed <= timeYellow; the variant without a quantity rule returns
\* IDLE, GREEN or RED only.
YellowOnlyByQuantityWhenCollapsed ==
    dashboard.settings.timeGreen = dashboard.settings.timeYellow
    => /\ dashboard.tableStatus \in {IDLE, GREEN, RED}
       /\ dashboard.tableStatus_002 \in {IDLE, GREEN, YELLOW, RED}
       /\ dashboard.tableStatus_002 = YELLOW
          => /\ MaxCount > dashboard.settings.qtyGreen
             /\ MaxCount <= dashboard.settings.qtyYellow
             /\ ElapsedMs <= dashboard.settings.timeYellow * MsPerSecond

\* one active call exactly as old as the coinciding thresholds, below the
\* quantity thresholds, is GREEN in both variants
CollapsedWitness ==
    /\ dashboard.settings.timeGreen = dashboard.settings.timeYellow
    /\ dashboard.settings.timeYellow = 1
    /\ dashboard.settings.qtyGreen >= 1
    /\ Len(ActiveRendered) = 1
    /\ ElapsedMs = MsPerSecond
    /\ dashboard.tableStatus = GREEN /\ dashboard.tableStatus_002 = GREEN

\* C32: a negative elapsed time counts as zero.  When the oldest active call of
\* the table was created later than Date.now(), getTableSemaphoreStatus returns
\* what it returns at the instant the oldest active call was created (elapsed
\* = 0), and getCallTypeSemaphoreStatus returns, for every type with an active
\* call, what it returns at the instant the oldest active call of the type was
\* created; the thresholds are integers >= 0.
NegativeElapsedAsZero ==
    LET cs == dashboard.calls
        st == dashboard.settings
    IN  (Len(ActiveRendered) > 0 /\ OldestCreatedAt(ActiveRendered) > now
            /\ st.timeGreen >= 0 /\ st.timeYellow >= 0)
        => /\ getTableSemaphoreStatus(cs, st, now)
                = getTableSemaphoreStatus(cs, st, OldestCreatedAt(ActiveRendered))
           /\ getTableSemaphoreStatus_002(cs, st, now)
                = getTableSemaphoreStatus_002(cs, st, OldestCreatedAt(ActiveRendered))
           /\ \A type \in CallTypes :
                LET ofType == SelectSeq(ActiveRendered, LAMBDA c : c.type = type)
                IN  Len(ofType) > 0
                    => /\ getCallTypeSemaphoreStatus(cs, type, st, now)
                            = getCallTypeSemaphoreStatus(cs, type, st, OldestCreatedAt(ofType))
                       /\ getCallTypeSemaphoreStatus_002(cs, type, st, now)
                            = getCallTypeSemaphoreStatus_002(cs, type, st,
                                                             OldestCreatedAt(ofType))

\* the only active call of the table was created two seconds after Date.now()
\* under thresholds of 0 and 1 seconds, and the table is GREEN
SkewedCallWitness ==
    /\ Len(ActiveRendered) = 1
    /\ ActiveRendered[1].createdAt = now + 2 * MsPerSecond
    /\ dashboard.settings.timeGreen = 0 /\ dashboard.settings.qtyGreen >= 1
    /\ getTableSemaphoreStatus(dashboard.calls, dashboard.settings, now) = GREEN
    /\ getTableSemaphoreStatus_002(dashboard.calls, dashboard.settings, now) = GREEN
    /\ getCallTypeSemaphoreStatus(dashboard.calls, ActiveRendered[1].type,
                                  dashboard.settings, now) = GREEN

\* C33: at most one polling timer exists and it belongs to the signed-in user.
\* No timer is installed while currentUser is null; the installed timer was
\* created by the render of the current id and establishmentId (a change of
\* either cleared the previous interval); and a tick that starts a cycle starts
\* it for the current user, with one cycle() call at most.
TimerOfCurrentUser ==
    [][/\ (currentUser' = NoUser => ~effect'.installed)
       /\ (effect'.installed
            => /\ effect'.user.id = currentUser'.id
               /\ effect'.user.establishmentId = currentUser'.establishmentId)
       /\ (Tick /\ cycles' # cycles
            => \E c \in BagToSet(cycles') :
                  /\ cycles' = BagAdd(cycles, c)
                  /\ c.user.id = currentUser.id
                  /\ c.user.establishmentId = currentUser.establishmentId)]_vars

\* the customer has signed in after the owner without a sign-out in between:
\* the timer installed is the customer's, while a cycle of the owner's timer is
\* still in flight
TimerReplacedWitness ==
    /\ currentUser.id = Customer
    /\ effect.installed /\ effect.user.id = Customer
    /\ \E c \in BagToSet(cycles) : c.user.id = Owner

\* C34: a refresh never installs an aggregate whose calls differ from
\* RemoteStore's active calls at read time.  In every step in which the calls
\* query of a refresh is answered, with data or with an error, the cache is
\* left as it was or the aggregate installed lists exactly the calls that are
\* active in RemoteStore: after a failed query the cached aggregate is kept.
InstalledCallsAreRemote ==
    [][/\ \A l \in BagToSet(loads), ok \in BOOLEAN :
            LoadCalls(l, ok)
            => \/ establishments' = establishments
               \/ establishments'[l.est] = FullEst(l.row, ActiveOfEst(l.est))
       /\ \A c \in BagToSet(cycles), ok \in BOOLEAN :
            CycleLoadCalls(c, ok)
            => \/ establishments' = establishments
               \/ establishments'[c.load.est] = FullEst(c.load.row, ActiveOfEst(c.load.est))]_vars

\* the cached aggregate of establishment e is RemoteStore's present state
CacheIsCurrent(e) ==
    /\ e \in DOMAIN establishments
    /\ establishments[e] = FullEst(estRows[e], ActiveOfEst(e))

\* C35: when two refreshes of one establishment overlap, a fetch that read
\* earlier but completed later never overwrites the newer aggregate.  Whenever
\* the cache holds RemoteStore's present state of an establishment (the
\* aggregate of the fetch that read last) and another refresh of that
\* establishment completes with all its queries answered, the cache still
\* holds RemoteStore's present state.
NewerAggregateSurvives ==
    [][\A e \in Est :
        (/\ CacheIsCurrent(e)
         /\ \/ \E l \in BagToSet(loads) : l.est = e /\ LoadCalls(l, TRUE)
            \/ \E c \in BagToSet(cycles) : c.load.est = e /\ CycleLoadCalls(c, TRUE))
        => CacheIsCurrent(e)']_vars

\* C36: after closeEstablishmentWorkday has completed, the remote is_open of
\* the establishment stays false while the owner's session remains signed in
\* and keeps polling.  No step taken while the owner is signed in and no
\* handler is running turns is_open from false to true.
ClosedStaysClosed ==
    [][(/\ currentUser # NoUser /\ currentUser' # NoUser
        /\ ops[Session].kind = "idle"
        /\ ~estRows[OwnEst].is_open)
       => ~estRows'[OwnEst].is_open]_vars

\* C37: convergence.  While the owner's session stays signed in, once
\* RemoteStore no longer changes and every fetch succeeds, the cached aggregate
\* of the owner's establishment eventually equals RemoteStore's state
\* (settings, isOpen and exactly the active calls of every table) and stays
\* equal, under fair scheduling of the timer ticks.
CacheConverges == <>[]CacheIsCurrent(OwnEst)

\* the cache holds the placeholder (fallbackEst) for establishment e
IsPlaceholder(e) == e \in DOMAIN establishments /\ establishments[e] = FallbackEst

\* the cache holds an aggregate built from RemoteStore's row for establishment e
IsAuthentic(e) == e \in DOMAIN establishments /\ establishments[e] # FallbackEst

\* C38: recovery from degraded mode.  When the cache holds the placeholder of
\* the owner's establishment and a refresh of it whose establishment fetch
\* succeeded completes, the placeholder is replaced by the authentic
\* aggregate; and no step puts the placeholder in the place of authentic data.
PlaceholderRecovers ==
    [][/\ (/\ IsPlaceholder(OwnEst)
           /\ \/ \E l \in BagToSet(loads), ok \in BOOLEAN :
                    l.est = OwnEst /\ LoadCalls(l, ok)
              \/ \E c \in BagToSet(cycles), ok \in BOOLEAN :
                    c.load.est = OwnEst /\ CycleLoadCalls(c, ok))
          => IsAuthentic(OwnEst)'
       /\ IsAuthentic(OwnEst) => ~IsPlaceholder(OwnEst)']_vars

\* C39: two attendOldestCallByType / cancelOldestCallByType operations of the
\* same establishment, table and type that run concurrently while at least
\* two calls of that type are active consume a call each: when both have
\* selected their call and await their update, the two selected calls are
\* distinct, so that two calls become terminal.
ConcurrentOldestConsumeTwo ==
    \A k1, k2 \in DOMAIN ops :
        (/\ k1 # k2
         /\ ops[k1].kind \in {"attend", "cancel"} /\ ops[k1].pc = "update"
         /\ ops[k2].kind \in {"attend", "cancel"} /\ ops[k2].pc = "update"
         /\ ops[k1].est = ops[k2].est /\ ops[k1].table = ops[k2].table
         /\ ops[k1].type = ops[k2].type
         /\ Cardinality(ActiveOfType(ops[k1].est, ops[k1].table, ops[k1].type)) >= 2)
        => ops[k1].sel # ops[k2].sel

\* C40: boot always finishes.  On every boot path isInitialized eventually
\* becomes true, and when the profile of the stored session cannot be loaded
\* the session continues with an in-memory user of role CUSTOMER for the
\* account of the session.
BootAlwaysFinishes ==
    /\ <>isInitialized
    /\ [][(profile.pc = "profile" /\ ProfileSelect(FALSE))
          => /\ currentUser'.id = profile.uid
             /\ currentUser'.role = CUSTOMER
             /\ profile'.pc = "done"]_vars

\* boot finished for the owner's stored session with the placeholder user
BootRecoveredWitness ==
    /\ isInitialized
    /\ profile.uid = Owner
    /\ currentUser.id = Owner /\ currentUser.role = CUSTOMER

====
